---- MODULE Spec2Model ----
(***************************************************************************)
(* A model of yalv-rust (src/src/main.rs): the text extraction pipeline    *)
(* over the output of virsh, and the modal event loop of the dashboard.    *)
(*                                                                         *)
(* A Rust String is a sequence of one-character strings, so that trimming, *)
(* splitting and joining are computed as the code computes them.  An       *)
(* Option<T> is a sequence of length 0 (None) or 1 (Some).                 *)
(***************************************************************************)
EXTENDS Integers, Sequences, FiniteSets, TLC

(***************************************************************************)
(* Bounds of the model.                                                    *)
(***************************************************************************)
\* The largest number of domains the hypervisor reports.
MaxVms == 2
\* The longest SSH user name typed into the input buffer.
MaxInput == 2
\* The largest number of lines of a list output parsed on its own.
MaxLines == 4
\* The largest number of rows an address source reports.
MaxRows == 2
\* The largest number of attributes of the <source> of a disk.
MaxAttrs == 2

(***************************************************************************)
(* String literals of the source.                                          *)
(***************************************************************************)
\* The words the parsers compare with and the defaults they fill in.
Str ==
  [NA |-> <<"N", "/", "A">>,
   running |-> <<"r", "u", "n", "n", "i", "n", "g">>,
   shut_off |-> <<"s", "h", "u", "t", " ", "o", "f", "f">>,
   paused |-> <<"p", "a", "u", "s", "e", "d">>,
   MiB |-> <<" ", "M", "i", "B">>,
   vcpu |-> <<"v", "c", "p", "u">>,
   memory |-> <<"m", "e", "m", "o", "r", "y">>,
   unit |-> <<"u", "n", "i", "t">>,
   kib |-> <<"k", "i", "b">>,
   mib |-> <<"m", "i", "b">>,
   gib |-> <<"g", "i", "b">>,
   b |-> <<"b">>,
   byte |-> <<"b", "y", "t", "e">>,
   bytes |-> <<"b", "y", "t", "e", "s">>,
   KiB |-> <<"K", "i", "B">>,
   ipv4 |-> <<"i", "p", "v", "4">>,
   disk |-> <<"d", "i", "s", "k">>,
   interface |-> <<"i", "n", "t", "e", "r", "f", "a", "c", "e">>,
   device |-> <<"d", "e", "v", "i", "c", "e">>,
   target |-> <<"t", "a", "r", "g", "e", "t">>,
   dev |-> <<"d", "e", "v">>,
   source |-> <<"s", "o", "u", "r", "c", "e">>,
   file |-> <<"f", "i", "l", "e">>,
   name |-> <<"n", "a", "m", "e">>,
   volume |-> <<"v", "o", "l", "u", "m", "e">>,
   path |-> <<"p", "a", "t", "h">>,
   address |-> <<"a", "d", "d", "r", "e", "s", "s">>,
   type |-> <<"t", "y", "p", "e">>,
   domain |-> <<"d", "o", "m", "a", "i", "n">>,
   bus |-> <<"b", "u", "s">>,
   slot |-> <<"s", "l", "o", "t">>,
   function |-> <<"f", "u", "n", "c", "t", "i", "o", "n">>,
   network |-> <<"n", "e", "t", "w", "o", "r", "k">>,
   bridge |-> <<"b", "r", "i", "d", "g", "e">>,
   emulator |-> <<"e", "m", "u", "l", "a", "t", "o", "r">>,
   unknown |-> <<"u", "n", "k", "n", "o", "w", "n">>]

\* The fixed text of the format! calls.
Fmt ==
  [Network |-> <<"N", "e", "t", "w", "o", "r", "k", ":", " ">>,
   Interfaces |-> <<"\n", "I", "n", "t", "e", "r", "f", "a", "c", "e", "s", ":", " ">>,
   Emulator |-> <<"\n", "E", "m", "u", "l", "a", "t", "o", "r", ":", " ">>,
   Disks |-> <<"\n", "D", "i", "s", "k", "s", ":", " ">>,
   unable_to_parse |-> <<"(", "u", "n", "a", "b", "l", "e", " ", "t", "o", " ", "p", "a", "r", "s", "e", " ", "d", "u", "m", "p", "x", "m", "l", " ", "f", "o", "r", " ", "'">>,
   dumpxml_failed |-> <<"(", "d", "u", "m", "p", "x", "m", "l", " ", "f", "a", "i", "l", "e", "d", " ", "f", "o", "r", " ", "'">>,
   unable_to_run |-> <<"(", "u", "n", "a", "b", "l", "e", " ", "t", "o", " ", "r", "u", "n", " ", "d", "u", "m", "p", "x", "m", "l", " ", "f", "o", "r", " ", "'">>,
   IPs |-> <<"I", "P", "s", ":", " ">>]

None == <<>>
Some(x) == <<x>>

(***************************************************************************)
(* The str methods the parsers use.                                        *)
(***************************************************************************)
\* char::is_whitespace, on the ASCII characters of the model.
WhiteSpace == {" ", "\t", "\n", "\r"}

\* The indices of s that hold a character outside (inside) the set.
IndicesNotIn(s, set) == {i \in 1..Len(s) : s[i] \notin set}
IndicesIn(s, set) == {i \in 1..Len(s) : s[i] \in set}

SetMin(S) == CHOOSE x \in S : \A y \in S : x <= y
SetMax(S) == CHOOSE x \in S : \A y \in S : y <= x

\* The elements of a set of integers, in increasing order.
SortedSeq(S) ==
  [k \in 1..Cardinality(S) |-> CHOOSE x \in S : Cardinality({y \in S : y < x}) = k - 1]

trim_start(s) ==
  LET keep == IndicesNotIn(s, WhiteSpace)
  IN IF keep = {} THEN <<>> ELSE SubSeq(s, SetMin(keep), Len(s))

trim_end(s) ==
  LET keep == IndicesNotIn(s, WhiteSpace)
  IN IF keep = {} THEN <<>> ELSE SubSeq(s, 1, SetMax(keep))

trim(s) == trim_end(trim_start(s))

\* str::split_whitespace: the maximal runs of non-whitespace characters.
split_whitespace(s) ==
  LET inside == IndicesNotIn(s, WhiteSpace)
      starts == SortedSeq({i \in inside : i = 1 \/ i - 1 \notin inside})
      ends == SortedSeq({i \in inside : i = Len(s) \/ i + 1 \notin inside})
  IN [k \in 1..Len(starts) |-> SubSeq(s, starts[k], ends[k])]

\* A line ending is "\n" or "\r\n"; the "\r" of the latter is not part of the line.
StripCr(s) ==
  IF s # <<>> /\ s[Len(s)] = "\r" THEN SubSeq(s, 1, Len(s) - 1) ELSE s

\* str::lines: the text between line endings; a final line ending opens no
\* further (empty) line, a final line without ending is a line as it stands.
lines(s) ==
  LET ends == SortedSeq(IndicesIn(s, {"\n"}))
      n == Len(ends)
      start(k) == IF k = 1 THEN 1 ELSE ends[k - 1] + 1
      terminated == [k \in 1..n |-> StripCr(SubSeq(s, start(k), ends[k] - 1))]
  IN IF start(n + 1) <= Len(s)
     THEN Append(terminated, SubSeq(s, start(n + 1), Len(s)))
     ELSE terminated

\* Iterator::skip
skip(seq, n) == SubSeq(seq, n + 1, Len(seq))

RECURSIVE join(_, _)
join(parts, sep) ==
  IF parts = <<>> THEN <<>>
  ELSE IF Len(parts) = 1 THEN parts[1]
  ELSE parts[1] \o sep \o join(Tail(parts), sep)

\* str::split(c).next(): the text before the first c (all of it when c is absent).
before_first(s, c) ==
  LET at == IndicesIn(s, {c})
  IN IF at = {} THEN s ELSE SubSeq(s, 1, SetMin(at) - 1)

\* Vec::push of an element that is not yet present (the code's dedup idiom).
push_unique(v, x) ==
  IF \E i \in 1..Len(v) : v[i] = x THEN v ELSE Append(v, x)

RECURSIVE extend_unique(_, _)
extend_unique(v, xs) ==
  IF xs = <<>> THEN v ELSE extend_unique(push_unique(v, Head(xs)), Tail(xs))

(***************************************************************************)
(* struct Vm and parse_virsh_output.                                       *)
(***************************************************************************)
Vm(id, name, vcpus, memory, state) ==
  [id |-> id, name |-> name, vcpus |-> vcpus, memory |-> memory, state |-> state]

AllDashes(s) == \A i \in 1..Len(s) : s[i] = "-"

\* ParseVirshLine, were the state the third token alone.
ParseVirshLine_state_is_one_token(line) ==
  LET trimmed == trim(line)
      parts == split_whitespace(trimmed)
  IN IF trimmed = <<>> \/ AllDashes(trimmed) THEN <<>>
     ELSE IF Len(parts) >= 3
          THEN <<Vm(parts[1], parts[2], Str.NA, Str.NA, parts[3])>>
          ELSE <<>>

\* The body of the loop of parse_virsh_output: the records one line contributes.
ParseVirshLine(line) ==
  LET trimmed == trim(line)
      parts == split_whitespace(trimmed)
  IN IF trimmed = <<>> \/ AllDashes(trimmed) THEN <<>>
     ELSE IF Len(parts) >= 3
          THEN <<Vm(parts[1], parts[2], Str.NA, Str.NA,
                    join(SubSeq(parts, 3, Len(parts)), <<" ">>))>>
          ELSE <<>>

RECURSIVE ParseVirshLines(_)
ParseVirshLines(ls) ==
  IF ls = <<>> THEN <<>>
  ELSE ParseVirshLine(Head(ls)) \o ParseVirshLines(Tail(ls))

parse_virsh_output(output) == ParseVirshLines(skip(lines(output), 2))

(***************************************************************************)
(* convert_memory_to_mib.  The amounts of the model are unsigned decimal   *)
(* integers below 2^53, on which the f64 operations of the code (a         *)
(* division or multiplication by a power of two) are exact; the value in   *)
(* MiB is carried as the pair (numerator, power-of-two denominator).       *)
(***************************************************************************)
Digits == <<"0", "1", "2", "3", "4", "5", "6", "7", "8", "9">>

IsDigit(c) == \E i \in 1..10 : Digits[i] = c

DigitValue(c) == (CHOOSE i \in 1..10 : Digits[i] = c) - 1

RECURSIVE DecimalValue(_, _)
DecimalValue(s, acc) ==
  IF s = <<>> THEN acc ELSE DecimalValue(Tail(s), 10 * acc + DigitValue(Head(s)))

\* str::parse::<f64>().ok() on the numerals of the model: digits only parse,
\* any text holding another character than a digit fails (the input sets hold
\* no signed, fractional or exponent numerals).
parse_f64(value) ==
  IF value # <<>> /\ \A i \in 1..Len(value) : IsDigit(value[i])
  THEN Some(DecimalValue(value, 0))
  ELSE None

RECURSIVE ToDecimal(_)
ToDecimal(n) ==
  IF n < 10 THEN <<Digits[n + 1]>> ELSE Append(ToDecimal(n \div 10), Digits[(n % 10) + 1])

UpperCase == <<"A", "B", "C", "D", "E", "F", "G", "H", "I", "J", "K", "L", "M",
               "N", "O", "P", "Q", "R", "S", "T", "U", "V", "W", "X", "Y", "Z">>
LowerCase == <<"a", "b", "c", "d", "e", "f", "g", "h", "i", "j", "k", "l", "m",
               "n", "o", "p", "q", "r", "s", "t", "u", "v", "w", "x", "y", "z">>

to_ascii_lowercase(s) ==
  [i \in 1..Len(s) |->
     IF \E k \in 1..26 : UpperCase[k] = s[i]
     THEN LowerCase[CHOOSE k \in 1..26 : UpperCase[k] = s[i]]
     ELSE s[i]]

\* UnitFactor, were an amount in bytes divided by 1024.
UnitFactor_bytes_by_1024(unit) ==
  CASE unit = Str.kib -> Some(<<1, 1024>>)
    [] unit = Str.mib -> Some(<<1, 1>>)
    [] unit = Str.gib -> Some(<<1024, 1>>)
    [] unit \in {Str.b, Str.byte, Str.bytes} -> Some(<<1, 1024>>)
    [] OTHER -> None

\* The match on the lower-cased unit: the factor as <<multiplier, divisor>>.
UnitFactor(unit) ==
  CASE unit = Str.kib -> Some(<<1, 1024>>)
    [] unit = Str.mib -> Some(<<1, 1>>)
    [] unit = Str.gib -> Some(<<1024, 1>>)
    [] unit \in {Str.b, Str.byte, Str.bytes} -> Some(<<1, 1024 * 1024>>)
    [] OTHER -> None

\* format!("{mib:.0}") when |fract| < 0.01, else format!("{mib:.1}"), of the
\* exact value num / den: Rust rounds the exact decimal expansion, ties to even.
FormatMib(num, den) ==
  LET whole == num \div den
      rem == num % den
      tenth == (rem * 10) \div den
      left == (rem * 10) % den
      up == (2 * left > den) \/ (2 * left = den /\ tenth % 2 = 1)
      t == IF up THEN tenth + 1 ELSE tenth
  IN IF rem * 100 < den
     THEN ToDecimal(whole)
     ELSE IF t = 10
          THEN ToDecimal(whole + 1) \o <<".", "0">>
          ELSE ToDecimal(whole) \o <<".">> \o ToDecimal(t)

convert_memory_to_mib(value, unit) ==
  LET amount == parse_f64(value)
      u == to_ascii_lowercase(IF unit = None THEN Str.KiB ELSE unit[1])
      factor == UnitFactor(u)
  IN IF amount = None \/ factor = None THEN None
     ELSE Some(FormatMib(amount[1] * factor[1][1], factor[1][2]) \o Str.MiB)

(***************************************************************************)
(* The token stream of xmlparser::Tokenizer, and parse_dumpxml_resources.  *)
(***************************************************************************)
ElementStart(local) == [t |-> "ElementStart", local |-> local, value |-> <<>>, end |-> ""]
Attribute(local, value) == [t |-> "Attribute", local |-> local, value |-> value, end |-> ""]
Text(text) == [t |-> "Text", local |-> <<>>, value |-> text, end |-> ""]
ElementEnd(end) == [t |-> "ElementEnd", local |-> <<>>, value |-> <<>>, end |-> end]
\* A token the parsers ignore (declaration, comment, processing instruction).
OtherToken == [t |-> "Other", local |-> <<>>, value |-> <<>>, end |-> ""]
\* The Err item the tokenizer yields on malformed XML.
TokenError == [t |-> "Error", local |-> <<>>, value |-> <<>>, end |-> ""]

\* stack.last().map(String::as_str)
last(stack) == IF stack = <<>> THEN None ELSE Some(stack[Len(stack)])

\* Vec::pop, result dropped
pop(stack) == IF stack = <<>> THEN stack ELSE SubSeq(stack, 1, Len(stack) - 1)

\* The locals of parse_dumpxml_resources; ok turns FALSE when `token?` returns Err.
ResourcesInit ==
  [ok |-> TRUE, stack |-> <<>>, vcpu |-> None, memory |-> None, memory_unit |-> None]

\* One iteration of the token loop of parse_dumpxml_resources.
ResourcesStep(st, token) ==
  CASE token.t = "ElementStart" ->
         [st EXCEPT !.stack = Append(@, token.local)]
    [] token.t = "Attribute" ->
         IF last(st.stack) = Some(Str.memory) /\ token.local = Str.unit
         THEN [st EXCEPT !.memory_unit = Some(token.value)]
         ELSE st
    [] token.t = "Text" ->
         LET value == trim(token.value)
         IN IF value # <<>> /\ st.vcpu = None /\ last(st.stack) = Some(Str.vcpu)
            THEN [st EXCEPT !.vcpu = Some(value)]
            ELSE IF value # <<>> /\ st.memory = None /\ last(st.stack) = Some(Str.memory)
                 THEN [st EXCEPT !.memory = Some(value)]
                 ELSE st
    [] token.t = "ElementEnd" ->
         IF token.end = "Open" THEN st ELSE [st EXCEPT !.stack = pop(@)]
    [] token.t = "Error" -> [st EXCEPT !.ok = FALSE]
    [] OTHER -> st

\* `for token in Tokenizer::from(xml)`: it ends with the tokens, or at `token?`.
RECURSIVE ResourcesLoop(_, _)
ResourcesLoop(st, tokens) ==
  IF tokens = <<>> \/ ~st.ok THEN st
  ELSE ResourcesLoop(ResourcesStep(st, Head(tokens)), Tail(tokens))

\* Result<(Option<String>, Option<String>), Error> as [ok, vcpu, memory].
parse_dumpxml_resources(xml) ==
  LET st == ResourcesLoop(ResourcesInit, xml)
      memory_mib == IF st.memory = None THEN None
                    ELSE convert_memory_to_mib(st.memory[1], st.memory_unit)
  IN [ok |-> st.ok, vcpu |-> st.vcpu, memory |-> memory_mib]

(***************************************************************************)
(* The outcome of Command::output(): the spawn failed, or the process ran  *)
(* and exited with a status, its stdout captured.  The stdout of dumpxml   *)
(* is carried as the token stream the tokenizer makes of it.               *)
(***************************************************************************)
\* msg is the Display of the io::Error of a failed spawn, or the captured stderr.
SpawnError == [status |-> "spawn_error", stdout |-> <<>>, msg |-> <<"E", "N", "O", "E", "N", "T">>]
ExitNonZero == [status |-> "exit_nonzero", stdout |-> <<>>, msg |-> <<"e", "r", "r", "o", "r", ":", " ", "f", "a", "i", "l", "e", "d">>]
Success(stdout) == [status |-> "success", stdout |-> stdout, msg |-> <<>>]

\* A command line.
Cmd(prog, sub, name, opt) == [prog |-> prog, sub |-> sub, name |-> name, opt |-> opt]
\* An effect, as recorded in the trace of what one loop iteration did: the
\* command (or terminal operation) and how it ended.
Effect(cmd, status) == [cmd |-> cmd, status |-> status]
ListCmd(show_all) == Cmd("virsh", "list", <<>>, IF show_all THEN "--all" ELSE "")
DumpxmlCmd(name) == Cmd("virsh", "dumpxml", name, "")
DomifaddrCmd(name, source) == Cmd("virsh", "domifaddr", name, source)
\* eprintln! of a diagnostic.
Eprintln == Cmd("eprintln", "", <<>>, "")

\* What the environment answers to `virsh dumpxml <name>`.
RunDumpxml(env, name) ==
  IF name \in DOMAIN env.dumpxml THEN env.dumpxml[name] ELSE ExitNonZero

unwrap_or(opt, default) == IF opt = None THEN default ELSE opt[1]

get_vm_resources(env, name) ==
  LET output == RunDumpxml(env, name)
      parsed == parse_dumpxml_resources(output.stdout)
  IN IF output.status = "spawn_error" THEN None
     ELSE IF output.status # "success" THEN None
     ELSE IF ~parsed.ok THEN None
     ELSE Some(<<unwrap_or(parsed.vcpu, Str.NA), unwrap_or(parsed.memory, Str.NA)>>)

\* EnrichVms, were the loop to stop at the first VM whose resources are missing.
RECURSIVE EnrichVms_stops_at_failure(_, _)
EnrichVms_stops_at_failure(env, vms) ==
  IF vms = <<>> THEN <<>>
  ELSE LET vm == Head(vms)
           res == get_vm_resources(env, vm.name)
       IN IF res = None THEN vms
          ELSE <<[vm EXCEPT !.vcpus = res[1][1], !.memory = res[1][2]]>>
               \o EnrichVms_stops_at_failure(env, Tail(vms))

\* The enrichment loop of get_vm_list: `for vm in &mut vms`.
RECURSIVE EnrichVms(_, _)
EnrichVms(env, vms) ==
  IF vms = <<>> THEN <<>>
  ELSE LET vm == Head(vms)
           res == get_vm_resources(env, vm.name)
       IN <<IF res = None THEN vm
            ELSE [vm EXCEPT !.vcpus = res[1][1], !.memory = res[1][2]]>>
          \o EnrichVms(env, Tail(vms))

\* get_vm_list, were a failed listing to yield an empty inventory.
get_vm_list_empty_on_failure(env, show_all) ==
  LET output == env.list[show_all]
      vms == parse_virsh_output(output.stdout)
  IN [exit |-> None,
      vms |-> IF output.status # "success" THEN <<>> ELSE EnrichVms(env, vms),
      cmds |-> <<Effect(ListCmd(show_all), output.status)>>
               \o (IF output.status # "success" THEN <<Effect(Eprintln, "ok")>>
                   ELSE [i \in 1..Len(vms) |->
                           Effect(DumpxmlCmd(vms[i].name),
                                  RunDumpxml(env, vms[i].name).status)])]

\* get_vm_list: [exit, vms, cmds].  exit is the status of std::process::exit,
\* None when the function returns; cmds are the command lines it has run.
get_vm_list(env, show_all) ==
  LET output == env.list[show_all]
      vms == parse_virsh_output(output.stdout)
  IN IF output.status # "success"
     THEN [exit |-> Some(1), vms |-> <<>>,
           cmds |-> <<Effect(ListCmd(show_all), output.status),
                      Effect(Eprintln, "ok")>>]
     ELSE [exit |-> None,
           vms |-> EnrichVms(env, vms),
           cmds |-> <<Effect(ListCmd(show_all), output.status)>>
                    \o [i \in 1..Len(vms) |->
                          Effect(DumpxmlCmd(vms[i].name),
                                 RunDumpxml(env, vms[i].name).status)]]

(***************************************************************************)
(* parse_domifaddr_output and get_vm_ips.                                  *)
(***************************************************************************)
\* The body of the loop of parse_domifaddr_output, on the addresses so far.
ParseDomifaddrLine(ips, line) ==
  LET parts == split_whitespace(line)
  IN IF Len(parts) >= 4 /\ parts[3] = Str.ipv4
     THEN push_unique(ips, before_first(parts[4], "/"))
     ELSE ips

RECURSIVE ParseDomifaddrLines(_, _)
ParseDomifaddrLines(ips, ls) ==
  IF ls = <<>> THEN ips
  ELSE ParseDomifaddrLines(ParseDomifaddrLine(ips, Head(ls)), Tail(ls))

parse_domifaddr_output(output) == ParseDomifaddrLines(<<>>, skip(lines(output), 2))

\* let sources = ["lease", "arp", "agent"];
sources == <<"lease", "arp", "agent">>

\* What the environment answers to `virsh domifaddr <name> --source <source>`.
RunDomifaddr(env, name, source) ==
  IF <<name, source>> \in DOMAIN env.domifaddr
  THEN env.domifaddr[<<name, source>>]
  ELSE ExitNonZero

\* GetVmIpsFrom, were the loop to stop at the first source that reports an
\* address.
RECURSIVE GetVmIpsFrom_stops_at_hit(_, _, _, _)
GetVmIpsFrom_stops_at_hit(env, name, k, ips) ==
  IF k > Len(sources) \/ ips # <<>> THEN ips
  ELSE LET output == RunDomifaddr(env, name, sources[k])
       IN GetVmIpsFrom_stops_at_hit(env, name, k + 1,
            IF output.status = "success"
            THEN extend_unique(ips, parse_domifaddr_output(output.stdout))
            ELSE ips)

\* The loop of get_vm_ips over sources[k..]: a source that fails is skipped.
RECURSIVE GetVmIpsFrom(_, _, _, _)
GetVmIpsFrom(env, name, k, ips) ==
  IF k > Len(sources) THEN ips
  ELSE LET output == RunDomifaddr(env, name, sources[k])
       IN GetVmIpsFrom(env, name, k + 1,
            IF output.status = "success"
            THEN extend_unique(ips, parse_domifaddr_output(output.stdout))
            ELSE ips)

\* get_vm_ips: [ips, cmds].
get_vm_ips(env, name) ==
  [ips |-> GetVmIpsFrom(env, name, 1, <<>>),
   cmds |-> [k \in 1..Len(sources) |->
              Effect(DomifaddrCmd(name, sources[k]),
                     RunDomifaddr(env, name, sources[k]).status)]]

\* get_vm_ip, were the last address taken.
get_vm_ip_takes_last(env, name) ==
  LET r == get_vm_ips(env, name)
  IN [ip |-> IF r.ips = <<>> THEN None ELSE Some(r.ips[Len(r.ips)]), cmds |-> r.cmds]

\* get_vm_ip: get_vm_ips(name).into_iter().next()
get_vm_ip(env, name) ==
  LET r == get_vm_ips(env, name)
  IN [ip |-> IF r.ips = <<>> THEN None ELSE Some(r.ips[1]), cmds |-> r.cmds]

(***************************************************************************)
(* summarize_dumpxml.                                                      *)
(***************************************************************************)
DiskInfoDefault == [is_disk |-> FALSE, target |-> None, source |-> None]
InterfaceInfoDefault == [fields |-> <<>>]

\* The locals of summarize_dumpxml; ok turns FALSE when `token?` returns Err.
SummaryInit ==
  [ok |-> TRUE, stack |-> <<>>, emulator |-> None, networks |-> <<>>, interfaces |-> <<>>,
   disks |-> <<>>, current_disk |-> None, current_interface |-> None]

\* stack.iter().rev().nth(1)
second_last(stack) == IF Len(stack) < 2 THEN None ELSE Some(stack[Len(stack) - 1])

\* AttributeOnDisk, were a later attribute of <source> to replace an earlier.
AttributeOnDisk_last_source_wins(disk, elem, local, value) ==
  IF elem = Str.disk /\ local = Str.device /\ value = Str.disk
  THEN [disk EXCEPT !.is_disk = TRUE]
  ELSE IF elem = Str.target /\ local = Str.dev
  THEN [disk EXCEPT !.target = Some(value)]
  ELSE IF elem = Str.source
          /\ local \in {Str.file, Str.dev, Str.name, Str.volume, Str.path}
  THEN [disk EXCEPT !.source = Some(value)]
  ELSE disk

\* Token::Attribute, the part on current_disk.
AttributeOnDisk(disk, elem, local, value) ==
  IF elem = Str.disk /\ local = Str.device /\ value = Str.disk
  THEN [disk EXCEPT !.is_disk = TRUE]
  ELSE IF elem = Str.target /\ local = Str.dev
  THEN [disk EXCEPT !.target = Some(value)]
  ELSE IF elem = Str.source
          /\ local \in {Str.file, Str.dev, Str.name, Str.volume, Str.path}
          /\ disk.source = None
  THEN [disk EXCEPT !.source = Some(value)]
  ELSE disk

\* Token::Attribute, the part on current_interface.
AttributeOnInterface(interface, elem, local, value) ==
  LET field == IF elem = Str.interface
               THEN local \o <<"=">> \o value
               ELSE elem \o <<".">> \o local \o <<"=">> \o value
  IN [interface EXCEPT !.fields = push_unique(@, field)]

\* Token::Attribute.  A skipped field `continue`s past the networks as well.
SummaryAttribute(st, local, value) ==
  IF st.stack = <<>> THEN st
  ELSE
    LET elem == st.stack[Len(st.stack)]
        st1 == IF st.current_disk = None THEN st
               ELSE [st EXCEPT !.current_disk =
                       Some(AttributeOnDisk(st.current_disk[1], elem, local, value))]
        skip_field == elem = Str.address
                      /\ local \in {Str.type, Str.domain, Str.bus, Str.slot, Str.function}
        st2 == IF st1.current_interface = None THEN st1
               ELSE [st1 EXCEPT !.current_interface =
                       Some(AttributeOnInterface(st1.current_interface[1], elem, local, value))]
    IN IF st1.current_interface # None /\ skip_field THEN st1
       ELSE IF elem = Str.source
               /\ second_last(st.stack) = Some(Str.interface)
               /\ local \in {Str.network, Str.bridge, Str.dev}
            THEN [st2 EXCEPT !.networks = push_unique(@, value)]
            ELSE st2

\* Token::Text.
SummaryText(st, text) ==
  LET value == trim(text)
      elem == last(st.stack)
      st1 == IF elem = Some(Str.emulator) /\ st.emulator = None
             THEN [st EXCEPT !.emulator = Some(value)]
             ELSE st
  IN IF value = <<>> THEN st
     ELSE IF st1.current_interface # None /\ elem # None
          THEN [st1 EXCEPT !.current_interface =
                  Some([fields |-> push_unique(st1.current_interface[1].fields,
                                               elem[1] \o <<"=">> \o value)])]
          ELSE st1

\* SummaryClose, were every disk element listed whatever its device.
SummaryClose_lists_every_device(st) ==
  IF st.stack = <<>> THEN st
  ELSE
    LET closed == st.stack[Len(st.stack)]
        st1 == [st EXCEPT !.stack = pop(@)]
    IN IF closed = Str.interface
       THEN IF st1.current_interface = None THEN st1
            ELSE [st1 EXCEPT
                    !.current_interface = None,
                    !.interfaces = Append(@,
                       IF st1.current_interface[1].fields = <<>> THEN Str.NA
                       ELSE join(st1.current_interface[1].fields, <<",", " ">>))]
       ELSE IF closed = Str.disk
       THEN IF st1.current_disk = None THEN st1
            ELSE [st1 EXCEPT
                    !.current_disk = None,
                    !.disks = Append(@, unwrap_or(st1.current_disk[1].target, Str.unknown)
                                        \o <<":", " ">>
                                        \o unwrap_or(st1.current_disk[1].source, Str.unknown))]
       ELSE st1

\* Token::ElementEnd with ElementEnd::Empty or ElementEnd::Close (the two arms
\* of the source are the same text).
SummaryClose(st) ==
  IF st.stack = <<>> THEN st
  ELSE
    LET closed == st.stack[Len(st.stack)]
        st1 == [st EXCEPT !.stack = pop(@)]
    IN IF closed = Str.interface
       THEN IF st1.current_interface = None THEN st1
            ELSE [st1 EXCEPT
                    !.current_interface = None,
                    !.interfaces = Append(@,
                       IF st1.current_interface[1].fields = <<>> THEN Str.NA
                       ELSE join(st1.current_interface[1].fields, <<",", " ">>))]
       ELSE IF closed = Str.disk
       THEN IF st1.current_disk = None THEN st1
            ELSE [st1 EXCEPT
                    !.current_disk = None,
                    !.disks = IF st1.current_disk[1].is_disk
                              THEN Append(@, unwrap_or(st1.current_disk[1].target, Str.unknown)
                                             \o <<":", " ">>
                                             \o unwrap_or(st1.current_disk[1].source, Str.unknown))
                              ELSE @]
       ELSE st1

\* One iteration of the token loop of summarize_dumpxml.
SummaryStep(st, token) ==
  CASE token.t = "ElementStart" ->
         [st EXCEPT
            !.current_disk = IF token.local = Str.disk THEN Some(DiskInfoDefault) ELSE @,
            !.current_interface = IF token.local # Str.disk /\ token.local = Str.interface
                                  THEN Some(InterfaceInfoDefault) ELSE @,
            !.stack = Append(@, token.local)]
    [] token.t = "Attribute" -> SummaryAttribute(st, token.local, token.value)
    [] token.t = "Text" -> SummaryText(st, token.value)
    [] token.t = "ElementEnd" -> IF token.end = "Open" THEN st ELSE SummaryClose(st)
    [] token.t = "Error" -> [st EXCEPT !.ok = FALSE]
    [] OTHER -> st

\* `for token in Tokenizer::from(xml)`: it ends with the tokens, or at `token?`.
RECURSIVE SummaryLoop(_, _)
SummaryLoop(st, tokens) ==
  IF tokens = <<>> \/ ~st.ok THEN st
  ELSE SummaryLoop(SummaryStep(st, Head(tokens)), Tail(tokens))

or_NA(list) == IF list = <<>> THEN Str.NA ELSE join(list, <<",", " ">>)

\* The final format! of summarize_dumpxml.
SummaryFormat(st) ==
  Fmt.Network \o or_NA(st.networks)
  \o Fmt.Interfaces \o or_NA(st.interfaces)
  \o Fmt.Emulator \o unwrap_or(st.emulator, Str.NA)
  \o Fmt.Disks \o or_NA(st.disks)

\* Result<String, Error> as [ok, text, st]; st is the final state of the walk.
summarize_dumpxml(xml) ==
  LET st == SummaryLoop(SummaryInit, xml)
  IN [ok |-> st.ok, text |-> IF st.ok THEN SummaryFormat(st) ELSE <<>>, st |-> st]

get_dumpxml_summary(env, name) ==
  LET o == RunDumpxml(env, name)
      summary == summarize_dumpxml(o.stdout)
  IN IF o.status = "success"
     THEN IF summary.ok THEN summary.text
          ELSE Fmt.unable_to_parse \o name \o <<"'", ")">>
     ELSE IF o.status = "exit_nonzero"
     THEN Fmt.dumpxml_failed \o name \o <<"'", ":", " ">> \o o.msg \o <<")">>
     ELSE Fmt.unable_to_run \o name \o <<"'", ":", " ">> \o o.msg \o <<")">>

\* get_vm_info: [text, cmds].
get_vm_info(env, name) ==
  LET r == get_vm_ips(env, name)
      ip_text == IF r.ips = <<>> THEN Str.NA ELSE join(r.ips, <<",", " ">>)
  IN [text |-> Fmt.IPs \o ip_text \o <<"\n">> \o get_dumpxml_summary(env, name),
      cmds |-> <<Effect(Cmd("call", "get_vm_info", name, ""), "ok")>>
               \o r.cmds
               \o <<Effect(DumpxmlCmd(name), RunDumpxml(env, name).status)>>]

(***************************************************************************)
(* struct App and its methods.  An App is the record                       *)
(* [vms, selected, mode, input, show_all, info_cache]; selected is         *)
(* table_state.selected(), an Option of a 0-based index.                   *)
(*                                                                         *)
(* The methods that reach virsh take the answers `ans` their calls get:    *)
(* ans.vm_list pairs the flag of get_vm_list with its result, ans.vm_info  *)
(* and ans.vm_ip pair a domain name with the result of get_vm_info and of  *)
(* get_vm_ip.  The answers are computed by those functions from what virsh *)
(* prints (VmLists, InfoAnswers below).                                    *)
(***************************************************************************)
\* The result paired with the argument in a set of <<argument, result>>.
Answer(answers, argument) == (CHOOSE p \in answers : p[1] = argument)[2]

ModeNormal == [tag |-> "Normal", vm_name |-> <<>>, ip |-> <<>>, action |-> ""]
ModeSshInput(vm_name, ip) == [tag |-> "SshInput", vm_name |-> vm_name, ip |-> ip, action |-> ""]
ModeConfirm(vm_name, action) == [tag |-> "Confirm", vm_name |-> vm_name, ip |-> <<>>, action |-> action]

selected_vm(a) ==
  IF a.selected = None THEN None
  ELSE IF a.selected[1] < Len(a.vms) THEN Some(a.vms[a.selected[1] + 1])
  ELSE None

\* update_info_cache, were a cached entry never replaced.
update_info_cache_keeps_entry(a, ans) ==
  LET vm == selected_vm(a)
      info == Answer(ans.vm_info, vm[1].name)
  IN IF vm = None
     THEN [app |-> [a EXCEPT !.info_cache = None], cmds |-> <<>>, recomputed |-> FALSE]
     ELSE IF a.info_cache = None
     THEN [app |-> [a EXCEPT !.info_cache = Some(<<vm[1].name, info.text>>)],
           cmds |-> info.cmds, recomputed |-> TRUE]
     ELSE [app |-> a, cmds |-> <<>>, recomputed |-> FALSE]

\* App::update_info_cache: [app, cmds, recomputed].
update_info_cache(a, ans) ==
  LET vm == selected_vm(a)
      needs_update == IF a.info_cache = None THEN TRUE
                      ELSE a.info_cache[1][1] # vm[1].name
      info == Answer(ans.vm_info, vm[1].name)
  IN IF vm = None
     THEN [app |-> [a EXCEPT !.info_cache = None], cmds |-> <<>>, recomputed |-> FALSE]
     ELSE IF needs_update
     THEN [app |-> [a EXCEPT !.info_cache = Some(<<vm[1].name, info.text>>)],
           cmds |-> info.cmds, recomputed |-> TRUE]
     ELSE [app |-> a, cmds |-> <<>>, recomputed |-> FALSE]

Min(x, y) == IF x <= y THEN x ELSE y

\* RefreshSelection, were the cursor put back on the first row.
RefreshSelection_resets(selected, len) ==
  IF len = 0 THEN None ELSE Some(0)

\* The cursor after a refresh: selected.unwrap_or(0).min(len - 1), or None.
RefreshSelection(selected, len) ==
  IF len = 0 THEN None ELSE Some(Min(unwrap_or(selected, 0), len - 1))

\* refresh_vms, were the cache not emptied before it is queried.
refresh_vms_keeps_cache(a, ans) ==
  LET r == Answer(ans.vm_list, a.show_all)
      a1 == [a EXCEPT !.vms = r.vms,
                      !.selected = RefreshSelection(a.selected, Len(r.vms))]
      u == update_info_cache(a1, ans)
  IN IF r.exit # None
     THEN [exit |-> r.exit, app |-> a, cmds |-> r.cmds, recomputed |-> FALSE]
     ELSE [exit |-> None, app |-> u.app, cmds |-> r.cmds \o u.cmds,
           recomputed |-> u.recomputed]

\* App::refresh_vms: [exit, app, cmds, recomputed].
refresh_vms(a, ans) ==
  LET r == Answer(ans.vm_list, a.show_all)
      a1 == [a EXCEPT !.vms = r.vms,
                      !.selected = RefreshSelection(a.selected, Len(r.vms)),
                      !.info_cache = None]
      u == update_info_cache(a1, ans)
  IN IF r.exit # None
     THEN [exit |-> r.exit, app |-> a, cmds |-> r.cmds, recomputed |-> FALSE]
     ELSE [exit |-> None, app |-> u.app, cmds |-> r.cmds \o u.cmds,
           recomputed |-> u.recomputed]

\* next, were the cursor to stay on the last row.
next_stops_at_end(a) ==
  IF a.vms = <<>> THEN a
  ELSE [a EXCEPT !.selected =
          IF a.selected = None THEN Some(0)
          ELSE IF a.selected[1] >= Len(a.vms) - 1 THEN Some(Len(a.vms) - 1)
          ELSE Some(a.selected[1] + 1)]

\* App::next
next(a) ==
  IF a.vms = <<>> THEN a
  ELSE [a EXCEPT !.selected =
          IF a.selected = None THEN Some(0)
          ELSE IF a.selected[1] >= Len(a.vms) - 1 THEN Some(0)
          ELSE Some(a.selected[1] + 1)]

\* previous, were the cursor to stay on the first row.
previous_stops_at_start(a) ==
  IF a.vms = <<>> THEN a
  ELSE [a EXCEPT !.selected =
          IF a.selected = None THEN Some(0)
          ELSE IF a.selected[1] = 0 THEN Some(0)
          ELSE Some(a.selected[1] - 1)]

\* App::previous
previous(a) ==
  IF a.vms = <<>> THEN a
  ELSE [a EXCEPT !.selected =
          IF a.selected = None THEN Some(0)
          ELSE IF a.selected[1] = 0 THEN Some(Len(a.vms) - 1)
          ELSE Some(a.selected[1] - 1)]

\* App_new, were the first row selected whether or not there is one.
App_new_always_selects(ans, show_all) ==
  LET r == Answer(ans.vm_list, show_all)
  IN [exit |-> r.exit,
      app |-> [vms |-> r.vms,
               selected |-> Some(0),
               mode |-> ModeNormal,
               input |-> <<>>,
               show_all |-> show_all,
               info_cache |-> None],
      cmds |-> r.cmds]

\* App::new: [exit, app, cmds].
App_new(ans, show_all) ==
  LET r == Answer(ans.vm_list, show_all)
  IN [exit |-> r.exit,
      app |-> [vms |-> r.vms,
               selected |-> IF r.vms # <<>> THEN Some(0) ELSE None,
               mode |-> ModeNormal,
               input |-> <<>>,
               show_all |-> show_all,
               info_cache |-> None],
      cmds |-> r.cmds]

(***************************************************************************)
(* The environment of the dashboard: what virsh answers.  A table gives    *)
(* the state of the domains vm1..vmn; `virsh list` prints the running and  *)
(* paused ones, `virsh list --all` all of them, in the format of the doc   *)
(* comment of parse_virsh_output.                                          *)
(***************************************************************************)
VmName(i) == <<"v", "m", Digits[i + 1]>>

DomStates == <<Str.running, Str.shut_off, Str.paused>>

\* The tables of the model: vm1..vmn for every n up to MaxVms, the states
\* taken in turn from DomStates starting at any of them.
Tables ==
  {[i \in 1..n |-> DomStates[((i + r) % 3) + 1]] : n \in 0..MaxVms, r \in 0..2}

ListHeader == <<" ", "I", "d", " ", " ", "N", "a", "m", "e", " ", " ", "S", "t", "a", "t", "e", "\n", "-", "-", "-", "-", "-", "\n">>

ListRow(i, state) ==
  <<" ">> \o (IF state = Str.shut_off THEN <<"-">> ELSE <<Digits[i + 1]>>)
  \o <<" ", " ">> \o VmName(i) \o <<" ", " ">> \o state \o <<"\n">>

RECURSIVE ListRows(_, _, _)
ListRows(table, i, show_all) ==
  IF i > Len(table) THEN <<>>
  ELSE (IF show_all \/ table[i] # Str.shut_off THEN ListRow(i, table[i]) ELSE <<>>)
       \o ListRows(table, i + 1, show_all)

\* stdout of `virsh list [--all]`: header, separator, rows, a blank line.
ListText(table, show_all) == ListHeader \o ListRows(table, 1, show_all) \o <<"\n">>

\* The token stream of a domain descriptor.
DomainXml ==
  <<ElementStart(<<"d", "o", "m", "a", "i", "n">>),
    ElementEnd("Open"),
    ElementStart(<<"v", "c", "p", "u">>),
    ElementEnd("Open"),
    Text(<<"2">>),
    ElementEnd("Close"),
    ElementStart(<<"m", "e", "m", "o", "r", "y">>),
    Attribute(<<"u", "n", "i", "t">>, <<"K", "i", "B">>),
    ElementEnd("Open"),
    Text(<<"1", "5", "7", "2", "8", "6", "4">>),
    ElementEnd("Close"),
    Text(<<"\n">>),
    ElementStart(<<"d", "e", "v", "i", "c", "e", "s">>),
    ElementEnd("Open"),
    ElementStart(<<"e", "m", "u", "l", "a", "t", "o", "r">>),
    ElementEnd("Open"),
    Text(<<"/", "q">>),
    ElementEnd("Close"),
    ElementStart(<<"d", "i", "s", "k">>),
    Attribute(<<"d", "e", "v", "i", "c", "e">>, <<"d", "i", "s", "k">>),
    ElementEnd("Open"),
    ElementStart(<<"s", "o", "u", "r", "c", "e">>),
    Attribute(<<"f", "i", "l", "e">>, <<"/", "a">>),
    ElementEnd("Empty"),
    ElementStart(<<"t", "a", "r", "g", "e", "t">>),
    Attribute(<<"d", "e", "v">>, <<"v", "d", "a">>),
    ElementEnd("Empty"),
    ElementEnd("Close"),
    ElementStart(<<"i", "n", "t", "e", "r", "f", "a", "c", "e">>),
    Attribute(<<"t", "y", "p", "e">>, <<"n", "e", "t">>),
    ElementEnd("Open"),
    ElementStart(<<"s", "o", "u", "r", "c", "e">>),
    Attribute(<<"n", "e", "t", "w", "o", "r", "k">>, <<"n", "a", "t">>),
    ElementEnd("Empty"),
    ElementEnd("Close"),
    ElementEnd("Close"),
    ElementEnd("Close")>>

Ip1 == <<"1", "0", ".", "0", ".", "0", ".", "5">>
Ip2 == <<"1", "0", ".", "0", ".", "0", ".", "6">>

DomifaddrHeader == <<" ", "N", "a", "m", "e", " ", "M", "A", "C", " ", "P", "r", "o", "t", "o", "c", "o", "l", " ", "A", "d", "d", "r", "e", "s", "s", "\n", "-", "-", "-", "-", "-", "\n">>

DomifaddrRow(proto, addr) ==
  <<" ", "v", "n", "e", "t", "0", " ", "5", "2", ":", "5", "4", " ">> \o proto \o <<" ", " ">> \o addr \o <<"/", "2", "4", "\n">>

\* A descriptor the tokenizer rejects part-way.
BrokenXml == SubSeq(DomainXml, 1, 12) \o <<TokenError>>

Names == {VmName(i) : i \in 1..MaxVms}

ListAnswers ==
  {[b \in BOOLEAN |-> SpawnError], [b \in BOOLEAN |-> ExitNonZero]}
  \cup {[b \in BOOLEAN |-> Success(ListText(table, b))] : table \in Tables}

\* What virsh answers while the inventory is read: any listing (or none); the
\* descriptor dump of vm2 fails, every other dump succeeds.
ListEnvs ==
  {[list |-> l,
    dumpxml |-> [n \in Names |-> IF n = VmName(2) THEN ExitNonZero ELSE Success(DomainXml)],
    domifaddr |-> <<>>] : l \in ListAnswers}

\* What the three address sources answer, in three situations: no source
\* works; the lease and arp tables overlap and the agent cannot be spawned;
\* only arp knows.
AddressAnswers ==
  [none |-> [lease |-> ExitNonZero, arp |-> ExitNonZero, agent |-> SpawnError],
   both |-> [lease |-> Success(DomifaddrHeader \o DomifaddrRow(Str.ipv4, Ip1)),
             arp |-> Success(DomifaddrHeader \o DomifaddrRow(Str.ipv4, Ip1)
                                             \o DomifaddrRow(Str.ipv4, Ip2)),
             agent |-> SpawnError],
   arp |-> [lease |-> Success(DomifaddrHeader),
            arp |-> Success(DomifaddrHeader \o DomifaddrRow(Str.ipv4, Ip2)),
            agent |-> ExitNonZero]]

\* What the descriptor dump answers in the same three situations: it fails; it
\* succeeds; its output is malformed.
DumpAnswers ==
  [none |-> ExitNonZero, both |-> Success(DomainXml), arp |-> Success(BrokenXml)]

\* What virsh answers while the details of a domain are read.
InfoEnvs ==
  {[list |-> <<>>,
    dumpxml |-> [n \in Names |-> DumpAnswers[a]],
    domifaddr |-> [q \in Names \X {"lease", "arp", "agent"} |-> AddressAnswers[a][q[2]]]] :
     a \in {"none", "both", "arp"}}

\* The results get_vm_list can give, with and without --all.
VmListsAll == {get_vm_list(env, TRUE) : env \in ListEnvs}
VmListsActive == {get_vm_list(env, FALSE) : env \in ListEnvs}
VmLists(show_all) == IF show_all THEN VmListsAll ELSE VmListsActive

\* The results get_vm_info and get_vm_ip can give, per domain.
InfoAnswers ==
  {[vm_info |-> {<<n, get_vm_info(env, n)>> : n \in Names},
    vm_ip |-> {<<n, get_vm_ip(env, n)>> : n \in Names}] : env \in InfoEnvs}

\* The answers to one handler: one result of get_vm_list(show_all), and the
\* results of get_vm_info and get_vm_ip.
Answers(show_all) ==
  {[vm_list |-> {<<show_all, l>>}, vm_info |-> i.vm_info, vm_ip |-> i.vm_ip] :
     l \in VmLists(show_all), i \in InfoAnswers}

\* The answers to a handler that does not read the inventory.
DetailAnswers == {[vm_list |-> {}, vm_info |-> i.vm_info, vm_ip |-> i.vm_ip] : i \in InfoAnswers}

\* How a spawned child (start, shutdown, console, ssh) can end.
ChildStatuses == {"success", "exit_nonzero", "spawn_error"}

(***************************************************************************)
(* Input events.                                                           *)
(***************************************************************************)
Key(code) == [code |-> code, c |-> ""]
Char(c) == [code |-> "Char", c |-> c]

\* The characters of the keyboard: the bound ones, and a blank.
KeyChars == {"q", "j", "k", "s", "u", "A", "d", "y", "n", " "}
\* The characters typed while the SSH user name is entered.
TypedChars == {"q", " "}

Keys == {Key("Esc"), Key("Down"), Key("Up"), Key("Enter"), Key("Backspace"), Key("Tab")}
        \cup {Char(c) : c \in KeyChars}

(***************************************************************************)
(* The process: main and the event loop run.                               *)
(***************************************************************************)
VARIABLES
  pc,             \* "start": main not yet run; "loop": at the top of the loop of run;
                  \* "end": at the end of an iteration of the loop; "exited"
  exit_status,    \* Option of the exit status of the process
  args,           \* the command-line options, until main has read them
  app,            \* the App
  raw_mode,       \* the terminal is in raw mode
  alt_screen,     \* the terminal shows the alternate screen
  trace,          \* the effects of main and then of the current iteration, in order
  run_presses,    \* the length of the current run of consecutive 'down' presses
  run_recomputed, \* the detail-cache recomputations during that run
  call,           \* the arguments of a function applied on its own
  ret             \* its result

vars == <<pc, exit_status, args, app, raw_mode, alt_screen, trace,
          run_presses, run_recomputed, call, ret>>

\* The App before App::new and after the process has gone.
NoApp ==
  [vms |-> <<>>, selected |-> None, mode |-> ModeNormal, input |-> <<>>,
   show_all |-> FALSE, info_cache |-> None]

Term(op) == Cmd("terminal", op, <<>>, "")

\* A terminal operation that succeeds.
Did(op) == Effect(Term(op), "ok")

\* The effects of steps run in order, each terminal operation followed by `?`:
\* the one at index fail (0: none) fails, and nothing after it runs.
RECURSIVE Sequential(_, _)
Sequential(ops, fail) ==
  IF ops = <<>> THEN <<>>
  ELSE IF fail = 1 THEN <<[Head(ops) EXCEPT !.status = "io_error"]>>
  ELSE <<Head(ops)>> \o Sequential(Tail(ops), fail - 1)

\* The terminal after the effects: [raw, alt].
RECURSIVE TermAfter(_, _)
TermAfter(term, effects) ==
  IF effects = <<>> THEN term
  ELSE LET e == Head(effects)
           done == e.cmd.prog = "terminal" /\ e.status = "ok"
       IN TermAfter(
            [raw |-> IF done /\ e.cmd.sub = "disable_raw_mode" THEN FALSE
                     ELSE IF done /\ e.cmd.sub = "enable_raw_mode" THEN TRUE
                     ELSE term.raw,
             alt |-> IF done /\ e.cmd.sub = "LeaveAlternateScreen" THEN FALSE
                     ELSE IF done /\ e.cmd.sub = "EnterAlternateScreen" THEN TRUE
                     ELSE term.alt],
            Tail(effects))

Failed(effects) == \E i \in 1..Len(effects) : effects[i].status = "io_error"

\* Handoff, were the terminal not taken back when the child cannot be spawned.
Handoff_lost_on_spawn_error(child, status, fail) ==
  LET steps == Sequential(IF status = "spawn_error"
                          THEN <<Did("disable_raw_mode"), Did("LeaveAlternateScreen"),
                                 Effect(child, status)>>
                          ELSE <<Did("disable_raw_mode"), Did("LeaveAlternateScreen"),
                                 Effect(child, status),
                                 Did("enable_raw_mode"), Did("EnterAlternateScreen"),
                                 Did("clear")>>,
                          fail)
  IN IF ~Failed(steps) /\ status = "spawn_error"
     THEN Append(steps, Effect(Eprintln, "ok"))
     ELSE steps

\* The handoff of the terminal to a child: the steps of the Enter arm of run
\* and of run_ssh.
Handoff(child, status, fail) ==
  LET steps == Sequential(<<Did("disable_raw_mode"), Did("LeaveAlternateScreen"),
                            Effect(child, status),
                            Did("enable_raw_mode"), Did("EnterAlternateScreen"),
                            Did("clear")>>,
                          fail)
  IN IF ~Failed(steps) /\ status = "spawn_error"
     THEN Append(steps, Effect(Eprintln, "ok"))
     ELSE steps

\* The indices of the terminal operations of a handoff (3 is the child).
HandoffFailures == {0, 1, 2, 4, 5, 6}

\* The top of an iteration of the loop of run.
Drawn == <<Effect(Term("draw"), "ok")>>
Polled(ready) == Drawn \o <<Effect(Term("poll"), IF ready THEN "ok" ELSE "timeout")>>
ReadEvent(key) ==
  Polled(TRUE)
  \o <<Effect(Cmd("terminal", "read", IF key.code = "Char" THEN <<key.c>> ELSE <<>>,
                  key.code), "ok")>>

\* The process ends: its memory is gone, the terminal stays as it was left.
Exit(status, effects) ==
  /\ pc' = "exited"
  /\ exit_status' = Some(status)
  /\ app' = NoApp
  /\ trace' = effects
  /\ LET term == TermAfter([raw |-> raw_mode, alt |-> alt_screen], effects)
     IN raw_mode' = term.raw /\ alt_screen' = term.alt
  /\ run_presses' = 0
  /\ run_recomputed' = 0
  /\ UNCHANGED <<args, call, ret>>

\* run returns to main (Ok when ok), which restores the terminal and returns.
RunReturns(ok, effects) ==
  \E fail \in 0..2 :
    LET all == effects \o Sequential(<<Did("disable_raw_mode"), Did("LeaveAlternateScreen")>>, fail)
    IN Exit(IF ok /\ fail = 0 THEN 0 ELSE 1, all)

\* The iteration ends and the loop goes on.
Continue(a, effects, presses, recomputed) ==
  /\ pc' = "end"
  /\ app' = a
  /\ trace' = effects
  /\ LET term == TermAfter([raw |-> raw_mode, alt |-> alt_screen], effects)
     IN raw_mode' = term.raw /\ alt_screen' = term.alt
  /\ run_presses' = presses
  /\ run_recomputed' = recomputed
  /\ UNCHANGED <<exit_status, args, call, ret>>

\* An iteration ends: on an I/O error run returns it, a fatal exit ends the
\* process on the spot, otherwise the loop continues.
Finish(exit, a, effects, presses, recomputed) ==
  IF exit # None THEN Exit(exit[1], effects)
  ELSE IF Failed(effects) THEN RunReturns(FALSE, effects)
  ELSE Continue(a, effects, presses, recomputed)

Init ==
  /\ pc = "start"
  /\ exit_status = None
  /\ args \in SUBSET {"--all", "--help"}
  /\ app = NoApp
  /\ raw_mode = FALSE
  /\ alt_screen = FALSE
  /\ trace = <<>>
  /\ run_presses = 0
  /\ run_recomputed = 0
  /\ call = <<>>
  /\ ret = <<>>

\* main, up to the call of run.
Main ==
  /\ pc = "start"
  /\ args' = {}
  /\ UNCHANGED <<call, ret>>
  /\ IF "--help" \in args
     THEN /\ pc' = "exited"
          /\ exit_status' = Some(0)
          /\ trace' = <<Effect(Cmd("print_help", "", <<>>, ""), "ok")>>
          /\ UNCHANGED <<app, raw_mode, alt_screen, run_presses, run_recomputed>>
     ELSE \E ans \in Answers(TRUE), fail \in 0..3 :
            LET n == App_new(ans, TRUE)
                u == update_info_cache(n.app, ans)
                setup == Sequential(<<Did("enable_raw_mode"), Did("EnterAlternateScreen"),
                                      Did("Terminal::new")>>, fail)
                term == TermAfter([raw |-> FALSE, alt |-> FALSE], setup)
            IN IF n.exit # None
               THEN /\ fail = 0
                    /\ pc' = "exited"
                    /\ exit_status' = n.exit
                    /\ trace' = n.cmds
                    /\ UNCHANGED <<app, raw_mode, alt_screen, run_presses, run_recomputed>>
               ELSE /\ pc' = IF fail = 0 THEN "loop" ELSE "exited"
                    /\ exit_status' = IF fail = 0 THEN None ELSE Some(1)
                    /\ app' = IF fail = 0 THEN u.app ELSE NoApp
                    /\ trace' = n.cmds \o u.cmds \o setup
                    /\ raw_mode' = term.raw
                    /\ alt_screen' = term.alt
                    /\ UNCHANGED <<run_presses, run_recomputed>>

\* `loop {`: the next iteration begins.
NextIteration ==
  /\ pc = "end"
  /\ pc' = "loop"
  /\ trace' = <<>>
  /\ UNCHANGED <<exit_status, args, app, raw_mode, alt_screen, run_presses,
                 run_recomputed, call, ret>>

\* terminal.draw, event::poll or event::read fails.
TerminalError ==
  /\ pc = "loop"
  /\ \E fail \in 1..3 :
       RunReturns(FALSE, Sequential(<<Did("draw"), Did("poll"), Did("read")>>, fail))

\* Tick, were a pending prompt dropped by the refresh.
Tick_drops_prompt ==
  /\ pc = "loop"
  /\ \E ans \in Answers(app.show_all) :
       LET r == refresh_vms([app EXCEPT !.mode = ModeNormal], ans)
       IN Finish(r.exit, r.app, Polled(FALSE) \o r.cmds, 0, 0)

\* No event within REFRESH_INTERVAL.
Tick ==
  /\ pc = "loop"
  /\ \E ans \in Answers(app.show_all) :
       LET r == refresh_vms(app, ans)
       IN Finish(r.exit, r.app, Polled(FALSE) \o r.cmds, 0, 0)

\* An event that is no key press: `continue`.
IgnoredEvent ==
  /\ pc = "loop"
  /\ \E kind \in {"not_a_key", "key_release"} :
       Continue(app, Polled(TRUE) \o <<Effect(Cmd("terminal", "read", <<>>, kind), "ok")>>,
                0, 0)

(***************************************************************************)
(* Mode::Normal                                                            *)
(***************************************************************************)
KeyQuit ==
  /\ pc = "loop" /\ app.mode.tag = "Normal"
  /\ \E key \in {Char("q"), Key("Esc")} : RunReturns(TRUE, ReadEvent(key))

KeyDown ==
  /\ pc = "loop" /\ app.mode.tag = "Normal"
  /\ \E key \in {Key("Down"), Char("j")}, ans \in DetailAnswers :
       LET u == update_info_cache(next(app), ans)
           restart == run_presses >= Len(app.vms)
           n == IF u.recomputed THEN 1 ELSE 0
       IN Continue(u.app, ReadEvent(key) \o u.cmds,
                   IF restart THEN 1 ELSE run_presses + 1,
                   IF restart THEN n ELSE run_recomputed + n)

KeyUp ==
  /\ pc = "loop" /\ app.mode.tag = "Normal"
  /\ \E key \in {Key("Up"), Char("k")}, ans \in DetailAnswers :
       LET u == update_info_cache(previous(app), ans)
       IN Continue(u.app, ReadEvent(key) \o u.cmds, 0, 0)

\* SelectedIn, were the state not looked at.
SelectedIn_any_state(a, state) == selected_vm(a)

\* The selected VM when its state is `state`.
SelectedIn(a, state) ==
  LET vm == selected_vm(a)
  IN IF vm # None /\ vm[1].state = state THEN vm ELSE None

KeyEnter ==
  /\ pc = "loop" /\ app.mode.tag = "Normal"
  /\ LET vm == SelectedIn(app, Str.running)
     IN IF vm = None THEN Continue(app, ReadEvent(Key("Enter")), 0, 0)
        ELSE \E status \in ChildStatuses, fail \in HandoffFailures :
               Finish(None, app,
                      ReadEvent(Key("Enter"))
                      \o Handoff(Cmd("virsh", "console", vm[1].name, ""), status, fail),
                      0, 0)

KeyS ==
  /\ pc = "loop" /\ app.mode.tag = "Normal"
  /\ LET vm == SelectedIn(app, Str.running)
     IN IF vm = None THEN Continue(app, ReadEvent(Char("s")), 0, 0)
        ELSE \E ans \in DetailAnswers :
               LET r == Answer(ans.vm_ip, vm[1].name)
               IN Continue(IF r.ip = None THEN app
                           ELSE [app EXCEPT !.input = <<>>,
                                            !.mode = ModeSshInput(vm[1].name, r.ip[1])],
                           ReadEvent(Char("s")) \o r.cmds, 0, 0)

KeyU ==
  /\ pc = "loop" /\ app.mode.tag = "Normal"
  /\ LET vm == SelectedIn(app, Str.shut_off)
     IN Continue(IF vm = None THEN app
                 ELSE [app EXCEPT !.mode = ModeConfirm(vm[1].name, "Start")],
                 ReadEvent(Char("u")), 0, 0)

KeyA ==
  /\ pc = "loop" /\ app.mode.tag = "Normal"
  /\ \E ans \in Answers(~app.show_all) :
       LET r == refresh_vms([app EXCEPT !.show_all = ~@], ans)
       IN Finish(r.exit, r.app, ReadEvent(Char("A")) \o r.cmds, 0, 0)

KeyD ==
  /\ pc = "loop" /\ app.mode.tag = "Normal"
  /\ LET vm == SelectedIn(app, Str.running)
     IN Continue(IF vm = None THEN app
                 ELSE [app EXCEPT !.mode = ModeConfirm(vm[1].name, "Shutdown")],
                 ReadEvent(Char("d")), 0, 0)

\* The `_ => {}` arm of Mode::Normal.
NormalOtherKey ==
  /\ pc = "loop" /\ app.mode.tag = "Normal"
  /\ \E key \in Keys \ ({Key("Esc"), Key("Down"), Key("Up"), Key("Enter")}
                        \cup {Char(c) : c \in {"q", "j", "k", "s", "u", "A", "d"}}) :
       Continue(app, ReadEvent(key), 0, 0)

(***************************************************************************)
(* Mode::Confirm                                                           *)
(***************************************************************************)
\* ActionName, were the two arms exchanged.
ActionName_exchanged(action) == IF action = "Start" THEN "shutdown" ELSE "start"

\* The `action` string of the 'y' arm.
ActionName(action) == IF action = "Start" THEN "start" ELSE "shutdown"

ConfirmYes ==
  /\ pc = "loop" /\ app.mode.tag = "Confirm"
  /\ \E status \in ChildStatuses, ans \in Answers(app.show_all) :
       LET child == Effect(Cmd("virsh", ActionName(app.mode.action), app.mode.vm_name, ""),
                           status)
           r == refresh_vms([app EXCEPT !.mode = ModeNormal], ans)
       IN Finish(r.exit, r.app, ReadEvent(Char("y")) \o <<child>> \o r.cmds, 0, 0)

\* ConfirmNo, were Esc to quit as it does in Mode::Normal.
ConfirmNo_esc_quits ==
  /\ pc = "loop" /\ app.mode.tag = "Confirm"
  /\ \/ Continue([app EXCEPT !.mode = ModeNormal], ReadEvent(Char("n")), 0, 0)
     \/ RunReturns(TRUE, ReadEvent(Key("Esc")))

ConfirmNo ==
  /\ pc = "loop" /\ app.mode.tag = "Confirm"
  /\ \E key \in {Char("n"), Key("Esc")} :
       Continue([app EXCEPT !.mode = ModeNormal], ReadEvent(key), 0, 0)

\* ConfirmOtherKey, were any other key taken as a denial.
ConfirmOtherKey_denies ==
  /\ pc = "loop" /\ app.mode.tag = "Confirm"
  /\ \E key \in Keys \ {Char("y"), Char("n"), Key("Esc")} :
       Continue([app EXCEPT !.mode = ModeNormal], ReadEvent(key), 0, 0)

\* The `_ => {}` arm of Mode::Confirm.
ConfirmOtherKey ==
  /\ pc = "loop" /\ app.mode.tag = "Confirm"
  /\ \E key \in Keys \ {Char("y"), Char("n"), Key("Esc")} :
       Continue(app, ReadEvent(key), 0, 0)

(***************************************************************************)
(* Mode::SshInput                                                          *)
(***************************************************************************)
\* SshEnter, were the user name passed to ssh as typed.
SshEnter_passes_untrimmed ==
  /\ pc = "loop" /\ app.mode.tag = "SshInput"
  /\ LET user == trim(app.input)
     IN IF user = <<>> THEN Continue(app, ReadEvent(Key("Enter")), 0, 0)
        ELSE \E status \in ChildStatuses, fail \in HandoffFailures :
               Finish(None, [app EXCEPT !.mode = ModeNormal, !.input = <<>>],
                      ReadEvent(Key("Enter"))
                      \o Handoff(Cmd("ssh", "", app.input \o <<"@">> \o app.mode.ip, ""),
                                 status, fail),
                      0, 0)

SshEnter ==
  /\ pc = "loop" /\ app.mode.tag = "SshInput"
  /\ LET user == trim(app.input)
     IN IF user = <<>> THEN Continue(app, ReadEvent(Key("Enter")), 0, 0)
        ELSE \E status \in ChildStatuses, fail \in HandoffFailures :
               Finish(None, [app EXCEPT !.mode = ModeNormal, !.input = <<>>],
                      ReadEvent(Key("Enter"))
                      \o Handoff(Cmd("ssh", "", user \o <<"@">> \o app.mode.ip, ""),
                                 status, fail),
                      0, 0)

\* SshEsc, were the buffer kept.
SshEsc_keeps_buffer ==
  /\ pc = "loop" /\ app.mode.tag = "SshInput"
  /\ Continue([app EXCEPT !.mode = ModeNormal], ReadEvent(Key("Esc")), 0, 0)

SshEsc ==
  /\ pc = "loop" /\ app.mode.tag = "SshInput"
  /\ Continue([app EXCEPT !.mode = ModeNormal, !.input = <<>>], ReadEvent(Key("Esc")), 0, 0)

SshBackspace ==
  /\ pc = "loop" /\ app.mode.tag = "SshInput"
  /\ Continue([app EXCEPT !.input = pop(@)], ReadEvent(Key("Backspace")), 0, 0)

\* KeyCode::Char(c): the buffer of the model holds at most MaxInput characters.
SshChar ==
  /\ pc = "loop" /\ app.mode.tag = "SshInput"
  /\ Len(app.input) < MaxInput
  /\ \E c \in TypedChars :
       Continue([app EXCEPT !.input = Append(@, c)], ReadEvent(Char(c)), 0, 0)

\* The `_ => {}` arm of Mode::SshInput.
SshOtherKey ==
  /\ pc = "loop" /\ app.mode.tag = "SshInput"
  /\ \E key \in {Key("Down"), Key("Tab")} :
       Continue(app, ReadEvent(key), 0, 0)

Next ==
  \/ Main
  \/ NextIteration
  \/ TerminalError
  \/ Tick
  \/ IgnoredEvent
  \/ KeyQuit
  \/ KeyDown
  \/ KeyUp
  \/ KeyEnter
  \/ KeyS
  \/ KeyU
  \/ KeyA
  \/ KeyD
  \/ NormalOtherKey
  \/ ConfirmYes
  \/ ConfirmNo
  \/ ConfirmOtherKey
  \/ SshEnter
  \/ SshEsc
  \/ SshBackspace
  \/ SshChar
  \/ SshOtherKey

Spec == Init /\ [][Next]_vars

(***************************************************************************)
(* get_vm_list applied on its own: any table, and for every domain any of  *)
(* the ways its descriptor dump can end.                                   *)
(***************************************************************************)
\* How a dump ends: well, not spawned, with a non-zero status, malformed.
DumpKinds == {"ok", "spawn_error", "exit_nonzero", "malformed"}

DumpOutcome(kind) ==
  CASE kind = "ok" -> Success(DomainXml)
    [] kind = "spawn_error" -> SpawnError
    [] kind = "exit_nonzero" -> ExitNonZero
    [] kind = "malformed" -> Success(BrokenXml)

BatchEnv(table, dumps) ==
  [list |-> [b \in BOOLEAN |-> Success(ListText(table, b))],
   dumpxml |-> [n \in Names |-> DumpOutcome(dumps[n])],
   domifaddr |-> <<>>]

InitList ==
  /\ pc = "start"
  /\ exit_status = None
  /\ args = {}
  /\ app = NoApp
  /\ raw_mode = FALSE
  /\ alt_screen = FALSE
  /\ trace = <<>>
  /\ run_presses = 0
  /\ run_recomputed = 0
  /\ call = <<>>
  /\ ret = <<>>

CallGetVmList ==
  /\ call = <<>>
  /\ \E table \in Tables, dumps \in [Names -> DumpKinds], show_all \in BOOLEAN :
       /\ call' = <<[table |-> table, dumps |-> dumps, show_all |-> show_all]>>
       /\ ret' = <<get_vm_list(BatchEnv(table, dumps), show_all)>>
  /\ UNCHANGED <<pc, exit_status, args, app, raw_mode, alt_screen, trace,
                 run_presses, run_recomputed>>

NextList == CallGetVmList

SpecList == InitList /\ [][NextList]_vars

(***************************************************************************)
(* The parsers and converters applied on their own.                        *)
(***************************************************************************)
\* Lines `virsh list` can print, each with its whitespace-separated tokens
\* and with its tokens from the third on, single-spaced.
ListLines ==
  <<[text |-> <<" ", "I", "d", " ", " ", " ", "N", "a", "m", "e", " ", " ", " ", "S", "t", "a", "t", "e">>,
     tokens |-> <<<<"I", "d">>, <<"N", "a", "m", "e">>, <<"S", "t", "a", "t", "e">>>>,
     state |-> <<"S", "t", "a", "t", "e">>],
    [text |-> <<"-", "-", "-", "-", "-">>,
     tokens |-> <<<<"-", "-", "-", "-", "-">>>>,
     state |-> <<>>],
    [text |-> <<" ", "1", " ", " ", "v", "m", "1", " ", " ", "r", "u", "n", "n", "i", "n", "g">>,
     tokens |-> <<<<"1">>, <<"v", "m", "1">>, <<"r", "u", "n", "n", "i", "n", "g">>>>,
     state |-> <<"r", "u", "n", "n", "i", "n", "g">>],
    [text |-> <<" ", "-", " ", " ", "v", "m", "2", " ", " ", "s", "h", "u", "t", " ", "o", "f", "f">>,
     tokens |-> <<<<"-">>, <<"v", "m", "2">>, <<"s", "h", "u", "t">>, <<"o", "f", "f">>>>,
     state |-> <<"s", "h", "u", "t", " ", "o", "f", "f">>],
    [text |-> <<>>,
     tokens |-> <<>>,
     state |-> <<>>],
    [text |-> <<" ", " ">>,
     tokens |-> <<>>,
     state |-> <<>>],
    [text |-> <<" ", "3", " ", " ", "v", "m", "3">>,
     tokens |-> <<<<"3">>, <<"v", "m", "3">>>>,
     state |-> <<>>],
    [text |-> <<"2", "\t", "v", "m", "9", "\t", "i", "n", " ", " ", "s", "h", "u", "t", "d", "o", "w", "n", "\r">>,
     tokens |-> <<<<"2">>, <<"v", "m", "9">>, <<"i", "n">>, <<"s", "h", "u", "t", "d", "o", "w", "n">>>>,
     state |-> <<"i", "n", " ", "s", "h", "u", "t", "d", "o", "w", "n">>]>>

\* The text of the lines, each ended by "\n" (the last one only when nl).
RECURSIVE Unlines(_, _)
Unlines(ls, nl) ==
  IF ls = <<>> THEN <<>>
  ELSE IF Len(ls) = 1 THEN ls[1] \o (IF nl THEN <<"\n">> ELSE <<>>)
  ELSE ls[1] \o <<"\n">> \o Unlines(Tail(ls), nl)

\* The sequences over S of a length up to n.
SeqsUpTo(S, n) == UNION {[1..k -> S] : k \in 0..n}

CallParseVirshOutput ==
  /\ call = <<>>
  /\ \E ks \in SeqsUpTo(1..Len(ListLines), MaxLines), nl \in BOOLEAN :
       /\ call' = <<[fn |-> "parse_virsh_output", lines |-> ks, nl |-> nl]>>
       /\ ret' = <<parse_virsh_output(Unlines([i \in 1..Len(ks) |-> ListLines[ks[i]].text], nl))>>
  /\ UNCHANGED <<pc, exit_status, args, app, raw_mode, alt_screen, trace,
                 run_presses, run_recomputed>>

\* stdout of `virsh domifaddr`: header, separator, rows.
RECURSIVE DomifaddrText(_)
DomifaddrText(rows) ==
  IF rows = <<>> THEN DomifaddrHeader
  ELSE DomifaddrText(SubSeq(rows, 1, Len(rows) - 1))
       \o DomifaddrRow(rows[Len(rows)].proto, rows[Len(rows)].addr)

CallGetVmIps ==
  /\ call = <<>>
  /\ LET \* Rows `virsh domifaddr` can print: the protocol and the address.
         AddressRows ==
           {[proto |-> Str.ipv4, addr |-> Ip1],
            [proto |-> Str.ipv4, addr |-> Ip2],
            [proto |-> <<"i", "p", "v", "6">>, addr |-> <<"f", "e", "8", "0", ":", ":", "1">>]}
         \* How the command of one source can end: it fails, or it prints rows.
         SourceOutcomes ==
           {[status |-> st, rows |-> <<>>] : st \in {"spawn_error", "exit_nonzero"}}
           \cup {[status |-> "success", rows |-> r] : r \in SeqsUpTo(AddressRows, MaxRows)}
     IN
     \E o \in [{"lease", "arp", "agent"} -> SourceOutcomes] :
       \* the agent, asked last, prints one row at most
       Len(o["agent"].rows) <= 1 /\
       LET answer(s) == IF o[s].status = "spawn_error" THEN SpawnError
                        ELSE IF o[s].status = "exit_nonzero" THEN ExitNonZero
                        ELSE Success(DomifaddrText(o[s].rows))
           env == [list |-> <<>>, dumpxml |-> <<>>,
                   domifaddr |-> [q \in {VmName(1)} \X {"lease", "arp", "agent"} |->
                                    answer(q[2])]]
       IN /\ call' = <<[fn |-> "get_vm_ips", name |-> VmName(1), sources |-> o]>>
          /\ ret' = <<get_vm_ips(env, VmName(1))>>
  /\ UNCHANGED <<pc, exit_status, args, app, raw_mode, alt_screen, trace,
                 run_presses, run_recomputed>>

\* The token stream of a descriptor with two vcpus and the <memory> element.
MemoryXml(value, unit) ==
  <<ElementStart(Str.domain), ElementEnd("Open"),
    ElementStart(Str.vcpu), ElementEnd("Open"), Text(<<"2">>), ElementEnd("Close"),
    ElementStart(Str.memory)>>
  \o (IF unit = None THEN <<>> ELSE <<Attribute(Str.unit, unit[1])>>)
  \o <<ElementEnd("Open"), Text(<<"\n", " ">> \o value \o <<"\n">>), ElementEnd("Close"),
       ElementEnd("Close")>>

\* convert_memory_to_mib, and get_vm_resources on a descriptor that holds the
\* same value and unit.
CallConvertMemory ==
  /\ call = <<>>
  /\ LET \* Texts of a <memory> element and values of its unit attribute.
         MemoryValues ==
           {<<"0">>,
            <<"1">>,
            <<"3">>,
            <<"5", "1", "2">>,
            <<"1", "0", "2", "4">>,
            <<"1", "5", "3", "6">>,
            <<"2", "0", "4", "8">>,
            <<"1", "0", "4", "8", "5", "7", "6">>,
            <<"1", "5", "7", "2", "8", "6", "4">>,
            <<"x", "1">>,
            <<>>}
         MemoryUnits ==
           {<<"K", "i", "B">>,
            <<"k", "i", "b">>,
            <<"M", "i", "B">>,
            <<"G", "i", "B">>,
            <<"b">>,
            <<"b", "y", "t", "e">>,
            <<"b", "y", "t", "e", "s">>,
            <<"T", "i", "B">>,
            <<"K", "B">>}
     IN
     \E value \in MemoryValues, unit \in {None} \cup {Some(u) : u \in MemoryUnits} :
       LET env == [list |-> <<>>, domifaddr |-> <<>>,
                   dumpxml |-> [n \in {VmName(1)} |-> Success(MemoryXml(value, unit))]]
       IN /\ call' = <<[fn |-> "convert_memory_to_mib", value |-> value, unit |-> unit]>>
          /\ ret' = <<[converted |-> convert_memory_to_mib(value, unit),
                       resources |-> get_vm_resources(env, VmName(1))]>>
  /\ UNCHANGED <<pc, exit_status, args, app, raw_mode, alt_screen, trace,
                 run_presses, run_recomputed>>

\* The value the descriptors of the model give to an attribute of <source>.
SourceValue(n) == <<"/">> \o n

\* The tokens of a <disk> element: d.device and d.target are Options of the
\* values of device= and of <target dev=>, d.source lists the attributes of
\* <source> as written (no <source> when there is none).
DiskElement(d) ==
  <<ElementStart(Str.disk), Attribute(Str.type, Str.file)>>
  \o (IF d.device = None THEN <<>> ELSE <<Attribute(Str.device, d.device[1])>>)
  \o <<ElementEnd("Open")>>
  \o (IF d.source = <<>> THEN <<>>
      ELSE <<ElementStart(Str.source)>>
           \o [i \in 1..Len(d.source) |-> Attribute(d.source[i], SourceValue(d.source[i]))]
           \o <<ElementEnd("Empty")>>)
  \o (IF d.target = None THEN <<>>
      ELSE <<ElementStart(Str.target), Attribute(Str.dev, d.target[1]),
             Attribute(Str.bus, <<"v", "i", "r", "t", "i", "o">>), ElementEnd("Empty")>>)
  \o <<ElementEnd("Close")>>

\* The descriptor DomainXml with the disks in the place of its disk.
RECURSIVE DescriptorXml(_)
DescriptorXml(disks) ==
  IF disks = <<>> THEN SubSeq(DomainXml, 1, 18) \o SubSeq(DomainXml, 29, 37)
  ELSE LET rest == DescriptorXml(Tail(disks))
       IN SubSeq(rest, 1, 18) \o DiskElement(Head(disks)) \o SubSeq(rest, 19, Len(rest))

\* summarize_dumpxml on a descriptor of one disk of any make, followed by no
\* other, by a CD-ROM or by a disk without children.
CallSummarizeDumpxml ==
  /\ call = <<>>
  /\ LET cdrom == <<"c", "d", "r", "o", "m">>
         SourceNames == {Str.file, Str.dev, Str.name, Str.volume, Str.path}
         Sources == {s \in SeqsUpTo(SourceNames, MaxAttrs) :
                       \A i, j \in 1..Len(s) : s[i] = s[j] => i = j}
         First == [device : {None, Some(Str.disk), Some(cdrom)},
                   target : {None, Some(<<"v", "d", "a">>)},
                   source : Sources]
         Others == {<<>>,
                    <<[device |-> Some(cdrom), target |-> Some(<<"h", "d", "c">>),
                       source |-> <<Str.file>>]>>,
                    <<[device |-> Some(Str.disk), target |-> None, source |-> <<>>]>>}
     IN
     \E first \in First, others \in Others :
       /\ call' = <<[fn |-> "summarize_dumpxml", disks |-> <<first>> \o others]>>
       /\ ret' = <<summarize_dumpxml(DescriptorXml(<<first>> \o others))>>
  /\ UNCHANGED <<pc, exit_status, args, app, raw_mode, alt_screen, trace,
                 run_presses, run_recomputed>>

\* parse_dumpxml_resources on a descriptor of one or two <memory> elements,
\* each with or without a unit attribute and with or without text.
CallParseDumpxmlResources ==
  /\ call = <<>>
  /\ LET Elements == [unit : {None, Some(Str.KiB), Some(<<"G", "i", "B">>)},
                      text : {<<>>, <<"2", "0", "4", "8">>}]
         tokens(e) ==
           <<ElementStart(Str.memory)>>
           \o (IF e.unit = None THEN <<>> ELSE <<Attribute(Str.unit, e.unit[1])>>)
           \o (IF e.text = <<>> THEN <<ElementEnd("Empty")>>
               ELSE <<ElementEnd("Open"), Text(e.text), ElementEnd("Close")>>)
     IN
     \E first \in Elements, others \in {<<>>} \cup {<<e>> : e \in Elements} :
       LET xml == <<ElementStart(Str.domain), ElementEnd("Open")>>
                  \o tokens(first)
                  \o <<Text(<<"\n", " ">>)>>
                  \o (IF others = <<>> THEN <<>> ELSE tokens(others[1]))
                  \o <<ElementEnd("Close")>>
       IN /\ call' = <<[fn |-> "parse_dumpxml_resources", memories |-> <<first>> \o others]>>
          /\ ret' = <<parse_dumpxml_resources(xml)>>
  /\ UNCHANGED <<pc, exit_status, args, app, raw_mode, alt_screen, trace,
                 run_presses, run_recomputed>>

NextFn ==
  \/ CallParseVirshOutput
  \/ CallGetVmIps
  \/ CallConvertMemory
  \/ CallSummarizeDumpxml
  \/ CallParseDumpxmlResources

SpecFn == InitList /\ [][NextFn]_vars

(***************************************************************************)
(* What a state shows of the iteration that led to it.                     *)
(***************************************************************************)
\* The key press the iteration read, if it read one.
KeyRead(t) ==
  IF Len(t) >= 3 /\ t[3].cmd.sub = "read" /\ t[3].status = "ok"
     /\ t[3].cmd.opt \notin {"", "not_a_key", "key_release"}
  THEN Some([code |-> t[3].cmd.opt,
             c |-> IF t[3].cmd.name = <<>> THEN "" ELSE t[3].cmd.name[1]])
  ELSE None

\* The places of the trace where virsh was run with the sub-commands.
Ran(t, subs) == {i \in 1..Len(t) : t[i].cmd.prog = "virsh" /\ t[i].cmd.sub \in subs}

\* The detail cache was recomputed (get_vm_info was called).
Recomputed(t) == \E i \in 1..Len(t) : t[i].cmd.prog = "call" /\ t[i].cmd.sub = "get_vm_info"

\* The name of the selected VM, and the key of the cache, as Options.
SelectedName(a) == IF selected_vm(a) = None THEN None ELSE Some(selected_vm(a)[1].name)
CacheKey(a) == IF a.info_cache = None THEN None ELSE Some(a.info_cache[1][1])

(***************************************************************************)
(* The claims.                                                             *)
(***************************************************************************)
\* C1: whenever the event loop is about to render, the detail cache is empty
\* with nothing selected, or it holds an entry whose key is the name of the
\* selected VM.
C1_CacheFollowsSelection ==
  pc \in {"loop", "end"} =>
    IF selected_vm(app) = None THEN app.info_cache = None
    ELSE app.info_cache # None /\ app.info_cache[1][1] = selected_vm(app)[1].name

\* The loop is about to render after a 'down' press that moved the cursor to
\* vm2 and recomputed the cache.
C1_Witness ==
  /\ pc = "end"
  /\ KeyRead(trace) = Some(Key("Down"))
  /\ Recomputed(trace)
  /\ CacheKey(app) = Some(VmName(2))

\* C2: in Mode::Confirm a key press other than 'y', 'n' and Esc changes
\* nothing of the App (mode and payload, cache, selection, inventory, input
\* buffer, show_all) and runs no command: the iteration draws, polls and
\* reads, and nothing else.
C2_ConfirmOtherKeysNoOp ==
  [][(/\ pc = "loop"
      /\ app.mode.tag = "Confirm"
      /\ KeyRead(trace') # None
      /\ KeyRead(trace')[1] \notin {Char("y"), Char("n"), Key("Esc")})
     => (/\ pc' = "end"
         /\ app' = app
         /\ Len(trace') = 3
         /\ \A i \in 1..3 : trace'[i].cmd.prog = "terminal")]_vars

\* 's' was pressed while a shutdown waits for its confirmation.
C2_Witness ==
  /\ pc = "end"
  /\ app.mode.tag = "Confirm"
  /\ app.mode.action = "Shutdown"
  /\ KeyRead(trace) = Some(Char("s"))

\* C3: on 'y' in Mode::Confirm {vm_name, action} exactly one lifecycle
\* command runs, `virsh start` for Start and `virsh shutdown` for Shutdown, on
\* the stored vm_name; however it ends, the mode is Normal and the inventory
\* is read anew right after it (the list command, then the dump of every row
\* of the new inventory).  On 'n' or Esc the mode is Normal, nothing else
\* changes and no command runs.
C3_ConfirmRunsStoredAction ==
  [][(pc = "loop" /\ app.mode.tag = "Confirm" /\ KeyRead(trace') # None)
     => LET key == KeyRead(trace')[1]
        IN /\ key = Char("y") =>
                /\ Cardinality(Ran(trace', {"start", "shutdown"})) = 1
                /\ trace'[4].cmd.prog = "virsh"
                /\ trace'[4].cmd.sub = (IF app.mode.action = "Start" THEN "start"
                                        ELSE "shutdown")
                /\ trace'[4].cmd.name = app.mode.vm_name
                /\ trace'[4].status \in ChildStatuses
                /\ Ran(trace', {"list"}) = {5}
                /\ app'.mode = ModeNormal
                /\ pc' = "end" =>
                     /\ trace'[5].status = "success"
                     /\ \A i \in 1..Len(app'.vms) :
                          /\ trace'[5 + i].cmd.sub = "dumpxml"
                          /\ trace'[5 + i].cmd.name = app'.vms[i].name
           /\ key \in {Char("n"), Key("Esc")} =>
                /\ pc' = "end"
                /\ app' = [app EXCEPT !.mode = ModeNormal]
                /\ Len(trace') = 3]_vars

\* 'y' confirmed the shutdown of vm2, virsh could not be spawned, and after
\* the refresh the cursor is on another VM.
C3_Witness ==
  /\ pc = "end"
  /\ KeyRead(trace) = Some(Char("y"))
  /\ Len(trace) >= 5
  /\ trace[4].cmd.sub = "shutdown"
  /\ trace[4].cmd.name = VmName(2)
  /\ trace[4].status = "spawn_error"
  /\ app.mode = ModeNormal
  /\ SelectedName(app) = Some(VmName(1))

\* The steps of a handoff, in the order of the source; step 3 is the child.
HandoffOps ==
  <<"disable_raw_mode", "LeaveAlternateScreen", "child",
    "enable_raw_mode", "EnterAlternateScreen", "clear">>

\* The effect is step j of a handoff.
IsHandoffStep(e, j) ==
  IF j = 3
  THEN /\ (e.cmd.prog = "virsh" /\ e.cmd.sub = "console") \/ e.cmd.prog = "ssh"
       /\ e.status \in ChildStatuses
  ELSE e.cmd.prog = "terminal" /\ e.cmd.sub = HandoffOps[j]

\* The iteration began a handoff: Enter was read and something followed.
HandoffBegun(t) == KeyRead(t) = Some(Key("Enter")) /\ Len(t) > 3

\* No terminal operation among the first n steps of the handoff failed.
NoFailureIn(t, n) == \A m \in 1..n : 3 + m <= Len(t) => t[3 + m].status # "io_error"

InSession(t) == t # <<>> /\ t[1].cmd.prog = "terminal" /\ t[1].cmd.sub = "draw"

\* C5 as stated: once the session runs, the failure of no external command
\* ends the process; leaving aside the errors of the terminal itself, a
\* process that has drawn a frame exits only on the quit key, with status 0.
C5_SessionEndsOnlyByQuit ==
  (pc = "exited" /\ InSession(trace) /\ ~Failed(trace)) =>
    /\ KeyRead(trace) \in {Some(Char("q")), Some(Key("Esc"))}
    /\ exit_status = Some(0)

\* C6: whenever `virsh list` is run and cannot be spawned or exits non-zero,
\* the failure is printed and the process exits with status 1, no inventory
\* kept and no further command run; a listing that succeeds is never a reason
\* to exit, the inventory holds exactly the rows dumped after it, and with no
\* row it is empty, with no selection.
C6_ListFailureIsFatal ==
  \A i \in Ran(trace, {"list"}) :
    IF trace[i].status # "success"
    THEN /\ pc = "exited"
         /\ exit_status = Some(1)
         /\ Len(trace) = i + 1
         /\ trace[i + 1].cmd.prog = "eprintln"
         /\ app.vms = <<>>
    ELSE /\ exit_status = Some(1) => Failed(trace)
         /\ pc # "exited" =>
              /\ \A k \in 1..Len(app.vms) :
                   /\ trace[i + k].cmd.sub = "dumpxml"
                   /\ trace[i + k].cmd.name = app.vms[k].name
              /\ (Len(trace) = i \/ trace[i + 1].cmd.sub # "dumpxml") =>
                   (app.vms = <<>> /\ app.selected = None)

\* A timer tick in the running session on which `virsh list` could not be
\* spawned: the process is gone with status 1.
C6_Witness ==
  /\ pc = "exited"
  /\ exit_status = Some(1)
  /\ Len(trace) = 4
  /\ trace[2].status = "timeout"
  /\ trace[3].cmd.sub = "list"
  /\ trace[3].status = "spawn_error"

\* The dumps of a call of get_vm_list, were all of them to end well.
AllDumpsOk == [n \in Names |-> "ok"]

\* C7: when the dump of a VM cannot be spawned, exits non-zero or is
\* malformed, get_vm_list still returns every record of the list parser, in
\* list order, with id, name and state as parsed; the VM of the failed dump
\* keeps "N/A" for vcpus and memory, and every other VM is enriched as it is
\* when no dump fails (here: 2 vcpus, 1536 MiB).
C7_DumpFailureKeepsBatch ==
  call # <<>> =>
    LET c == call[1]
        r == ret[1]
        parsed == parse_virsh_output(ListText(c.table, c.show_all))
        clean == get_vm_list(BatchEnv(c.table, AllDumpsOk), c.show_all)
    IN /\ r.exit = None
       /\ Len(r.vms) = Len(parsed)
       /\ \A i \in 1..Len(parsed) :
            /\ r.vms[i].id = parsed[i].id
            /\ r.vms[i].name = parsed[i].name
            /\ r.vms[i].state = parsed[i].state
            /\ IF c.dumps[parsed[i].name] = "ok"
               THEN /\ r.vms[i] = clean.vms[i]
                    /\ r.vms[i].vcpus = <<"2">>
                    /\ r.vms[i].memory = <<"1", "5", "3", "6", " ", "M", "i", "B">>
               ELSE /\ r.vms[i].vcpus = Str.NA
                    /\ r.vms[i].memory = Str.NA

\* Two rows, the dump of the first malformed, the second enriched.
C7_Witness ==
  /\ call # <<>>
  /\ call[1].dumps[VmName(1)] = "malformed"
  /\ call[1].dumps[VmName(2)] = "ok"
  /\ Len(ret[1].vms) = 2
  /\ ret[1].vms[1].vcpus = Str.NA
  /\ ret[1].vms[2].vcpus = <<"2">>

\* C8: on an inventory of length L > 0, 'down' moves the cursor from i to
\* (i + 1) mod L and 'up' from i to (i - 1) mod L; on an empty inventory both
\* leave the selection None.  Neither changes the inventory.
C8_CircularNavigation ==
  [][(/\ pc = "loop"
      /\ app.mode.tag = "Normal"
      /\ KeyRead(trace') \in {Some(Key("Down")), Some(Char("j")),
                              Some(Key("Up")), Some(Char("k"))})
     => LET L == Len(app.vms)
            down == KeyRead(trace')[1] \in {Key("Down"), Char("j")}
        IN /\ pc' = "end"
           /\ app'.vms = app.vms
           /\ IF L = 0
              THEN app.selected = None /\ app'.selected = None
              ELSE /\ app.selected # None
                   /\ app'.selected =
                        Some(IF down THEN (app.selected[1] + 1) % L
                             ELSE (app.selected[1] + L - 1) % L)]_vars

\* 'up' took the cursor to the last of two rows.
C8_Witness ==
  /\ pc = "end"
  /\ KeyRead(trace) = Some(Key("Up"))
  /\ Len(app.vms) = 2
  /\ app.selected = Some(1)

\* The iteration read the inventory anew.
Refreshed(t) == Ran(t, {"list"}) # {}

\* C9, as amended: an iteration recomputes the detail cache if and only if a
\* VM is selected when the cache is queried and either the inventory was just
\* refreshed (refresh_vms empties the cache first) or the selected name
\* differs from the cached key; a query made on an unchanged name without a
\* refresh recomputes nothing.
C9_RecomputedOnRefreshOrNewName ==
  [][(pc = "loop" /\ pc' = "end")
     => (Recomputed(trace') <=>
           /\ SelectedName(app') # None
           /\ Refreshed(trace') \/ SelectedName(app') # CacheKey(app))]_vars

\* A timer tick recomputed the cache.
C9_Witness ==
  /\ pc = "end"
  /\ Len(trace) >= 2
  /\ trace[2].status = "timeout"
  /\ Recomputed(trace)
  /\ CacheKey(app) = Some(VmName(1))

\* C9 as stated: the cache is recomputed if and only if the selected name
\* changes from one query to the next.
C9_RecomputedIffNameChanges ==
  [][(pc = "loop" /\ pc' = "end")
     => (Recomputed(trace') <=>
           /\ SelectedName(app') # None
           /\ SelectedName(app') # SelectedName(app))]_vars

\* The names of the inventory are pairwise distinct.
DistinctNames(vms) ==
  \A i, j \in 1..Len(vms) : vms[i].name = vms[j].name => i = j

\* C10, as amended: for every N >= 2, N consecutive 'down' presses on an
\* inventory of N records of pairwise distinct names recompute the detail
\* cache exactly N times (for N = 1 the press selects the same record again
\* and recomputes nothing).
C10_FullTurnRecomputesEach ==
  (/\ pc \in {"loop", "end"}
   /\ Len(app.vms) >= 2
   /\ DistinctNames(app.vms)
   /\ run_presses = Len(app.vms))
  => run_recomputed = Len(app.vms)

\* Two 'down' presses over two records, two recomputations.
C10_Witness ==
  /\ pc = "end"
  /\ Len(app.vms) = 2
  /\ run_presses = 2
  /\ run_recomputed = 2
  /\ Ran(trace, {"dumpxml"}) # {}

\* C10 as stated: the same for every N >= 1.
C10_EveryTurnRecomputesEach ==
  (/\ pc \in {"loop", "end"}
   /\ Len(app.vms) >= 1
   /\ DistinctNames(app.vms)
   /\ run_presses = Len(app.vms))
  => run_recomputed = Len(app.vms)

\* The addresses a source reports in a situation of AddressAnswers (none when
\* its command fails), and the first address of the first source, in the
\* order lease, arp, agent, that reports one.
SourceHits(a, k) ==
  LET o == AddressAnswers[a][sources[k]]
  IN IF o.status = "success" THEN parse_domifaddr_output(o.stdout) ELSE <<>>

FirstFound(a) ==
  LET hit == {k \in 1..3 : SourceHits(a, k) # <<>>}
  IN IF hit = {} THEN None ELSE Some(SourceHits(a, SetMin(hit))[1])

\* C11: in Mode::Normal with a selected VM whose state is "running", 's'
\* queries the three address sources for that VM and nothing else; when a
\* source reports an address the mode becomes SshInput {the selected name, the
\* first address of the first reporting source in the order lease, arp,
\* agent} with an empty input buffer and nothing else of the App changes;
\* when none does, the App (mode, selection, inventory, cache) is unchanged.
C11_SshKeyEntersWithFirstAddress ==
  [][(/\ pc = "loop"
      /\ app.mode.tag = "Normal"
      /\ KeyRead(trace') = Some(Char("s"))
      /\ SelectedIn(app, Str.running) # None)
     => LET name == selected_vm(app)[1].name
        IN /\ pc' = "end"
           /\ Len(trace') = 6
           /\ \A k \in 1..3 : trace'[3 + k].cmd = DomifaddrCmd(name, sources[k])
           /\ \E a \in {"none", "both", "arp"} :
                /\ \A k \in 1..3 :
                     trace'[3 + k].status = AddressAnswers[a][sources[k]].status
                /\ IF FirstFound(a) = None THEN app' = app
                   ELSE /\ app'.mode = ModeSshInput(name, FirstFound(a)[1])
                        /\ app'.input = <<>>
                        /\ app' = [app EXCEPT !.mode = app'.mode]]_vars

\* 's' on the running vm1 when the lease table is empty and arp knows the
\* address: the user name is asked for, towards the address arp gave.
C11_Witness ==
  /\ pc = "end"
  /\ KeyRead(trace) = Some(Char("s"))
  /\ app.mode = ModeSshInput(VmName(1), Ip2)
  /\ app.input = <<>>
  /\ Len(trace) = 6
  /\ trace[6].status = "exit_nonzero"

\* The places of the trace where a child was spawned (or its spawn failed):
\* any command but the terminal operations, the diagnostics and the marker of
\* get_vm_info.
Children(t) == {i \in 1..Len(t) : t[i].cmd.prog \in {"virsh", "ssh"}}

\* Enter was read in Mode::SshInput.
SshEnterRead ==
  /\ pc = "loop"
  /\ app.mode.tag = "SshInput"
  /\ KeyRead(trace') = Some(Key("Enter"))

GateOf(key) == IF key = Char("u") THEN Str.shut_off ELSE Str.running

\* C13: in Mode::Normal the keys Enter (console), 's' (ssh) and 'd'
\* (shutdown) act only on a selected VM whose state is "running", and 'u'
\* (start) only on one whose state is "shut off".  Otherwise (another state,
\* or nothing selected) the press leaves the App as it is and runs no
\* command.  When the state fits, Enter hands the terminal to
\* `virsh console <name>`, 's' queries the addresses of the VM, 'd' and 'u'
\* enter Mode::Confirm for Shutdown and Start of the selected name.
C13_ActionKeysGatedOnState ==
  [][(/\ pc = "loop"
      /\ app.mode.tag = "Normal"
      /\ KeyRead(trace') \in {Some(Key("Enter")), Some(Char("s")),
                              Some(Char("d")), Some(Char("u"))})
     => LET key == KeyRead(trace')[1]
            vm == selected_vm(app)
        IN IF vm = None \/ vm[1].state # GateOf(key)
           THEN pc' = "end" /\ app' = app /\ Len(trace') = 3
           ELSE CASE key = Key("Enter") ->
                       /\ Len(trace') > 3
                       /\ \A i \in Children(trace') :
                            trace'[i].cmd = Cmd("virsh", "console", vm[1].name, "")
                       /\ pc' = "end" => (app' = app /\ Children(trace') # {})
                  [] key = Char("s") ->
                       /\ Children(trace') = {4, 5, 6}
                       /\ \A i \in 4..6 : trace'[i].cmd.sub = "domifaddr"
                  [] key = Char("d") ->
                       /\ Len(trace') = 3
                       /\ app' = [app EXCEPT !.mode = ModeConfirm(vm[1].name, "Shutdown")]
                  [] key = Char("u") ->
                       /\ Len(trace') = 3
                       /\ app' = [app EXCEPT !.mode = ModeConfirm(vm[1].name, "Start")]]_vars

\* Enter on a paused VM: nothing but the draw, the poll and the read.
C13_Witness ==
  /\ pc = "end"
  /\ KeyRead(trace) = Some(Key("Enter"))
  /\ app.mode = ModeNormal
  /\ selected_vm(app) # None
  /\ selected_vm(app)[1].state = Str.paused
  /\ Len(trace) = 3

\* C14: an iteration that reads the inventory anew (timer tick, 'A', 'y' in
\* Mode::Confirm) and goes on leaves the cursor at None when the new
\* inventory is empty and otherwise at the smaller of its index before (0
\* when it was None) and the last index of the new inventory.  'A' flips
\* show_all and lists with the new value (`--all` exactly when it is now
\* set); every other refresh keeps show_all and lists with it.  One list
\* command is run per refresh.
C14_RefreshClampsCursor ==
  [][(pc = "loop" /\ Refreshed(trace'))
     => LET toggled == app.mode.tag = "Normal" /\ KeyRead(trace') = Some(Char("A"))
            flag == IF toggled THEN ~app.show_all ELSE app.show_all
            before == IF app.selected = None THEN 0 ELSE app.selected[1]
            len == Len(app'.vms)
        IN /\ Cardinality(Ran(trace', {"list"})) = 1
           /\ \A i \in Ran(trace', {"list"}) :
                trace'[i].cmd.opt = (IF flag THEN "--all" ELSE "")
           /\ pc' = "end" =>
                /\ app'.show_all = flag
                /\ app'.selected =
                     (IF len = 0 THEN None
                      ELSE IF before <= len - 1 THEN Some(before) ELSE Some(len - 1))]_vars

\* 'A' hid the inactive VMs: two rows are left and the cursor is still on the
\* second.
C14_Witness ==
  /\ pc = "end"
  /\ KeyRead(trace) = Some(Char("A"))
  /\ ~app.show_all
  /\ Len(trace) >= 4
  /\ trace[4].cmd = ListCmd(FALSE)
  /\ Len(app.vms) = 2
  /\ app.selected = Some(1)

\* The call is one of the function.
Called(fn) == call # <<>> /\ call[1].fn = fn

\* The lines of ks that count as rows: from the third on, not empty, not made
\* of '-' only, with three tokens at least.
RowsOf(ks) ==
  SortedSeq({i \in 3..Len(ks) :
               LET l == ListLines[ks[i]]
               IN /\ l.text # <<>>
                  /\ \E j \in 1..Len(l.text) : l.text[j] # "-"
                  /\ Len(l.tokens) >= 3})

\* C15: whatever lines the list output is made of, parse_virsh_output passes
\* over the first two and returns one record for each of the others that is
\* not empty, is not made of '-' only and has three tokens at least, in the
\* order of the lines: id is the first token, name the second, state the
\* others joined by single spaces, vcpus and memory are "N/A".  A line with
\* fewer tokens yields nothing and the lines after it are still parsed.
C15_ListParserKeepsRows ==
  Called("parse_virsh_output") =>
    LET ks == call[1].lines
        rows == RowsOf(ks)
        vms == ret[1]
    IN /\ Len(vms) = Len(rows)
       /\ \A r \in 1..Len(rows) :
            LET l == ListLines[ks[rows[r]]]
            IN /\ vms[r].id = l.tokens[1]
               /\ vms[r].name = l.tokens[2]
               /\ vms[r].state = l.state
               /\ vms[r].vcpus = <<"N", "/", "A">>
               /\ vms[r].memory = <<"N", "/", "A">>

\* Header, separator, a row of two tokens and a row "shut off": one record,
\* the state joined from its two tokens.
C15_Witness ==
  /\ Called("parse_virsh_output")
  /\ call[1].lines = <<1, 2, 7, 4>>
  /\ Len(ret[1]) = 1
  /\ ret[1][1].name = <<"v", "m", "2">>
  /\ ret[1][1].state = <<"s", "h", "u", "t", " ", "o", "f", "f">>

\* The rows the three sources of a call reported, in the order lease, arp,
\* agent and in the order of the rows, those of a failed source left out; and
\* the IPv4 addresses among them.
ReportedRows(o) ==
  (IF o["lease"].status = "success" THEN o["lease"].rows ELSE <<>>)
  \o (IF o["arp"].status = "success" THEN o["arp"].rows ELSE <<>>)
  \o (IF o["agent"].status = "success" THEN o["agent"].rows ELSE <<>>)

Ipv4Rows(rows) ==
  LET at == SortedSeq({i \in 1..Len(rows) : rows[i].proto = <<"i", "p", "v", "4">>})
  IN [k \in 1..Len(at) |-> rows[at[k]].addr]

\* The first place of x in seq.
FirstAt(seq, x) == SetMin({i \in 1..Len(seq) : seq[i] = x})

\* C16: get_vm_ips runs `virsh domifaddr <name> --source <s>` for lease, arp
\* and agent, in this order and all three whatever the earlier ones gave; the
\* result holds exactly the IPv4 addresses reported by the sources whose
\* command succeeded, each once, in the order of their first report.
C16_AllSourcesMergedInOrder ==
  Called("get_vm_ips") =>
    LET o == call[1].sources
        found == Ipv4Rows(ReportedRows(o))
        ips == ret[1].ips
        cmds == ret[1].cmds
    IN /\ Len(cmds) = 3
       /\ \A k \in 1..3 :
            /\ cmds[k].cmd = Cmd("virsh", "domifaddr", call[1].name,
                                 <<"lease", "arp", "agent">>[k])
            /\ cmds[k].status = o[<<"lease", "arp", "agent">>[k]].status
       /\ {ips[i] : i \in 1..Len(ips)} = {found[i] : i \in 1..Len(found)}
       /\ \A i, j \in 1..Len(ips) : ips[i] = ips[j] => i = j
       /\ \A i, j \in 1..Len(ips) :
            i < j => FirstAt(found, ips[i]) < FirstAt(found, ips[j])

\* The lease command exits non-zero, arp reports 10.0.0.6 and then 10.0.0.5,
\* the agent 10.0.0.5 again: two addresses, in the order arp gave them.
C16_Witness ==
  /\ Called("get_vm_ips")
  /\ call[1].sources["lease"].status = "exit_nonzero"
  /\ Len(call[1].sources["arp"].rows) = 2
  /\ call[1].sources["arp"].rows[2].addr = Ip1
  /\ Len(call[1].sources["agent"].rows) = 1
  /\ call[1].sources["agent"].rows[1].addr = Ip1
  /\ ret[1].ips = <<Ip2, Ip1>>

\* The amount in MiB of a value in a unit as the fraction <<numerator,
\* denominator>>; <<>> for an unknown unit.  No unit is KiB.
InMib(n, unit) ==
  IF unit = None \/ unit \in {Some(<<"K", "i", "B">>), Some(<<"k", "i", "b">>)}
  THEN <<n, 1024>>
  ELSE IF unit = Some(<<"M", "i", "B">>) THEN <<n, 1>>
  ELSE IF unit = Some(<<"G", "i", "B">>) THEN <<n * 1024, 1>>
  ELSE IF unit \in {Some(<<"b">>), Some(<<"b", "y", "t", "e">>),
                    Some(<<"b", "y", "t", "e", "s">>)}
  THEN <<n, 1048576>>
  ELSE <<>>

\* The text is the fraction q in MiB: "<w> MiB" for a whole number w with
\* 0 <= q - w < 0.01, otherwise "<w>.<t> MiB" with q no further than 0.05
\* from w.t.
ShowsMib(text, q) ==
  \E w \in {q[1] \div q[2], q[1] \div q[2] + 1}, t \in 0..9 :
    \/ /\ text = ToDecimal(w) \o <<" ", "M", "i", "B">>
       /\ w * q[2] <= q[1]
       /\ 100 * (q[1] - w * q[2]) < q[2]
    \/ /\ text = ToDecimal(w) \o <<".">> \o ToDecimal(t) \o <<" ", "M", "i", "B">>
       /\ 100 * (q[1] - (q[1] \div q[2]) * q[2]) >= q[2]
       /\ 2 * (10 * q[1] - (10 * w + t) * q[2]) <= q[2]
       /\ 2 * ((10 * w + t) * q[2] - 10 * q[1]) <= q[2]

\* C17: convert_memory_to_mib gives the amount in MiB: a value in KiB, or
\* with no unit, divided by 1024, in MiB as it is, in GiB times 1024, in b,
\* byte or bytes divided by 1048576; for another unit, or a value that is no
\* number, it gives nothing and get_vm_resources leaves memory at "N/A".
\* 1048576 b and 1024 KiB are "1 MiB", 1536 KiB are "1.5 MiB".
C17_MemoryInMib ==
  Called("convert_memory_to_mib") =>
    LET value == call[1].value
        unit == call[1].unit
        numeric == value # <<>> /\ \A i \in 1..Len(value) : IsDigit(value[i])
        q == IF numeric THEN InMib(DecimalValue(value, 0), unit) ELSE <<>>
        r == ret[1]
    IN /\ r.resources # None
       /\ r.resources[1][1] = <<"2">>
       /\ IF q = <<>>
          THEN r.converted = None /\ r.resources[1][2] = <<"N", "/", "A">>
          ELSE /\ r.converted # None
               /\ ShowsMib(r.converted[1], q)
               /\ r.resources[1][2] = r.converted[1]
       /\ (value = <<"1", "0", "4", "8", "5", "7", "6">> /\ unit = Some(<<"b">>))
            => r.converted = Some(<<"1", " ", "M", "i", "B">>)
       /\ (value = <<"1", "0", "2", "4">> /\ unit = Some(<<"K", "i", "B">>))
            => r.converted = Some(<<"1", " ", "M", "i", "B">>)
       /\ (value = <<"1", "5", "3", "6">> /\ unit = Some(<<"K", "i", "B">>))
            => r.converted = Some(<<"1", ".", "5", " ", "M", "i", "B">>)

\* 1572864 bytes are 1.5 MiB.
C17_Witness ==
  /\ Called("convert_memory_to_mib")
  /\ call[1].value = <<"1", "5", "7", "2", "8", "6", "4">>
  /\ call[1].unit = Some(<<"b", "y", "t", "e", "s">>)
  /\ ret[1].converted = Some(<<"1", ".", "5", " ", "M", "i", "B">>)
  /\ ret[1].resources = Some(<<(<<"2">>), ret[1].converted[1]>>)

\* The disks of a call whose device attribute is "disk", in their order.
Qualifying(disks) ==
  LET at == SortedSeq({i \in 1..Len(disks) : disks[i].device = Some(<<"d", "i", "s", "k">>)})
  IN [k \in 1..Len(at) |-> disks[at[k]]]

\* The text is "<target>: <source>".
IsEntry(text, target, source) == text = target \o <<":", " ">> \o source

\* The summary ends with the line "Disks: " and the entries, "N/A" for none.
EndsWithDisks(text, entries) ==
  LET line == <<"\n", "D", "i", "s", "k", "s", ":", " ">>
              \o (IF entries = <<>> THEN <<"N", "/", "A">> ELSE join(entries, <<",", " ">>))
  IN /\ Len(text) >= Len(line)
     /\ SubSeq(text, Len(text) - Len(line) + 1, Len(text)) = line

\* C18: the disk list of the summary holds one entry for each disk element
\* whose device attribute is "disk", in the order of the elements, and none
\* for a disk element with another device (a CD-ROM) or with no device
\* attribute.  The entry is "<target>: <source>": the dev attribute of <target>
\* or "unknown" without one, and the value of an attribute of <source> or
\* "unknown" without one; "vda: /file" for target vda and source file="/file".
C18_DiskListHoldsDisksOnly ==
  Called("summarize_dumpxml") =>
    LET q == Qualifying(call[1].disks)
        entries == ret[1].st.disks
    IN /\ ret[1].ok
       /\ EndsWithDisks(ret[1].text, entries)
       /\ Len(entries) = Len(q)
       /\ \A k \in 1..Len(q) :
            \E target \in {<<"u", "n", "k", "n", "o", "w", "n">>}
                          \cup {q[k].target[i] : i \in 1..Len(q[k].target)},
               source \in {<<"u", "n", "k", "n", "o", "w", "n">>}
                          \cup {<<"/">> \o q[k].source[i] : i \in 1..Len(q[k].source)} :
              /\ IsEntry(entries[k], target, source)
              /\ (target = <<"u", "n", "k", "n", "o", "w", "n">>) <=> (q[k].target = None)
              /\ (source = <<"u", "n", "k", "n", "o", "w", "n">>) <=> (q[k].source = <<>>)

\* A disk vda on the file "/file", followed by a CD-ROM: one entry.
C18_Witness ==
  /\ Called("summarize_dumpxml")
  /\ Len(call[1].disks) = 2
  /\ call[1].disks[1].source = <<(<<"f", "i", "l", "e">>)>>
  /\ call[1].disks[2].device = Some(<<"c", "d", "r", "o", "m">>)
  /\ ret[1].st.disks = <<(<<"v", "d", "a", ":", " ", "/", "f", "i", "l", "e">>)>>

\* C19 as stated: main leaves show_all set exactly when --all is among the
\* arguments, so that the first inventory holds the inactive VMs only with
\* --all; afterwards show_all changes only on 'A' in Mode::Normal.
C19_AllOptionSetsFlag ==
  [][/\ (pc = "start" /\ pc' = "loop") => (app'.show_all <=> "--all" \in args)
     /\ (pc = "loop" /\ pc' = "end" /\ app'.show_all # app.show_all) =>
          (app.mode.tag = "Normal" /\ KeyRead(trace') = Some(Char("A")))]_vars

\* The attributes file, dev, name, volume, path in the order of the claim.
SourcePriority ==
  <<(<<"f", "i", "l", "e">>), <<"d", "e", "v">>, <<"n", "a", "m", "e">>,
    <<"v", "o", "l", "u", "m", "e">>, <<"p", "a", "t", "h">>>>

\* The attribute of the list that comes first in SourcePriority.
FirstByPriority(attrs) ==
  SourcePriority[SetMin({p \in 1..5 : \E i \in 1..Len(attrs) : attrs[i] = SourcePriority[p]})]

\* C20, as amended: for a disk element whose <source> carries several of the
\* attributes file, dev, name, volume, path, the source of its entry is the
\* value of the one written first in the XML, whatever their places in the
\* order file, dev, name, volume, path.
C20_SourceIsFirstWritten ==
  Called("summarize_dumpxml") =>
    LET q == Qualifying(call[1].disks)
        entries == ret[1].st.disks
    IN /\ Len(entries) = Len(q)
       /\ \A k \in 1..Len(q) :
            q[k].source # <<>> =>
              IsEntry(entries[k], unwrap_or(q[k].target, <<"u", "n", "k", "n", "o", "w", "n">>),
                      <<"/">> \o q[k].source[1])

\* <source dev="/dev" file="/file"/>: the entry names "/dev".
C20_Witness ==
  /\ Called("summarize_dumpxml")
  /\ call[1].disks[1].device = Some(<<"d", "i", "s", "k">>)
  /\ call[1].disks[1].source = <<(<<"d", "e", "v">>), <<"f", "i", "l", "e">>>>
  /\ call[1].disks[1].target = Some(<<"v", "d", "a">>)
  /\ ret[1].st.disks[1] = <<"v", "d", "a", ":", " ", "/", "d", "e", "v">>

\* C20 as stated: the source of the entry is the value of the first present
\* attribute in the order file, dev, name, volume, path, whatever the order
\* in which they are written.
C20_SourceIsFirstByPriority ==
  Called("summarize_dumpxml") =>
    LET q == Qualifying(call[1].disks)
        entries == ret[1].st.disks
    IN /\ Len(entries) = Len(q)
       /\ \A k \in 1..Len(q) :
            q[k].source # <<>> =>
              IsEntry(entries[k], unwrap_or(q[k].target, <<"u", "n", "k", "n", "o", "w", "n">>),
                      <<"/">> \o FirstByPriority(q[k].source))

\* The <memory> elements of a call that have text, in their order.
WithText(memories) ==
  LET at == SortedSeq({i \in 1..Len(memories) : memories[i].text # <<>>})
  IN [k \in 1..Len(at) |-> memories[at[k]]]

\* C21 as stated: the memory is the text of the first <memory> element that
\* has one, in the unit of the unit attribute of that same element (KiB
\* without one): 2048 KiB are "2 MiB", 2048 GiB are "2097152 MiB".  A unit
\* attribute of another <memory> element changes nothing, and with no text
\* there is no memory.
C21_UnitOfSameElement ==
  Called("parse_dumpxml_resources") =>
    LET m == WithText(call[1].memories)
    IN /\ ret[1].ok
       /\ ret[1].memory =
            (IF m = <<>> THEN None
             ELSE IF m[1].unit = Some(<<"G", "i", "B">>)
             THEN Some(<<"2", "0", "9", "7", "1", "5", "2", " ", "M", "i", "B">>)
             ELSE Some(<<"2", " ", "M", "i", "B">>))

\* C22: in every state the cursor is None exactly when the inventory is
\* empty, and otherwise it is an index below the length of the inventory: with
\* a non-empty inventory there is a selected VM.
C22_CursorWithinInventory ==
  /\ app.selected = None <=> app.vms = <<>>
  /\ app.selected # None => (app.selected[1] >= 0 /\ app.selected[1] < Len(app.vms))
  /\ app.vms # <<>> => selected_vm(app) # None

\* A timer tick found no domain left: no row, no cursor.
C22_Witness ==
  /\ pc = "end"
  /\ Len(trace) = 3
  /\ trace[2].status = "timeout"
  /\ trace[3].status = "success"
  /\ app.vms = <<>>
  /\ app.selected = None

\* No operation that gives the terminal back (disable_raw_mode,
\* LeaveAlternateScreen) has itself failed.
RestoreWorked(t) ==
  \A i \in 1..Len(t) :
    t[i].cmd.sub \in {"disable_raw_mode", "LeaveAlternateScreen"} => t[i].status # "io_error"

\* C23 as stated: when the process has exited from the event loop (by the
\* quit key, an error of the terminal, or a list failure during a refresh),
\* and the operations that give the terminal back have not failed themselves,
\* raw mode is off and the alternate screen left.
C23_TerminalRestoredOnExit ==
  (pc = "exited" /\ InSession(trace) /\ RestoreWorked(trace)) =>
    (~raw_mode /\ ~alt_screen)

\* The iteration was a timer tick.
TickRead(t) == Len(t) >= 2 /\ t[2].cmd.sub = "poll" /\ t[2].status = "timeout"

\* C24: a timer tick does the same in every mode: it lists with the current
\* show_all and, when the loop goes on, the inventory holds the rows dumped,
\* the cursor is clamped and the cache recomputed for the selected VM, while
\* the mode with its payload, the input buffer and show_all are as before.
C24_TickKeepsModeAndPayload ==
  [][(pc = "loop" /\ TickRead(trace'))
     => /\ Ran(trace', {"list"}) = {3}
        /\ trace'[3].cmd.opt = (IF app.show_all THEN "--all" ELSE "")
        /\ pc' = "end" =>
             LET len == Len(app'.vms)
                 before == IF app.selected = None THEN 0 ELSE app.selected[1]
             IN /\ app'.mode = app.mode
                /\ app'.input = app.input
                /\ app'.show_all = app.show_all
                /\ \A k \in 1..len : trace'[3 + k].cmd.name = app'.vms[k].name
                /\ app'.selected = (IF len = 0 THEN None
                                    ELSE IF before < len THEN Some(before) ELSE Some(len - 1))
                /\ IF len = 0 THEN app'.info_cache = None /\ ~Recomputed(trace')
                   ELSE Recomputed(trace') /\ CacheKey(app') = SelectedName(app')]_vars

\* The shutdown of vm2 waits for its confirmation while a tick finds vm1
\* alone, now selected.
C24_Witness ==
  /\ pc = "end"
  /\ TickRead(trace)
  /\ app.mode = ModeConfirm(VmName(2), "Shutdown")
  /\ Len(app.vms) = 1
  /\ SelectedName(app) = Some(VmName(1))

\* C25: the input buffer is empty in every state whose mode is not SshInput:
\* no step in Mode::Normal or Mode::Confirm that goes on changes it, and it is
\* empty when SshInput is entered and when it is left.  In Mode::SshInput a
\* character key appends that character, Backspace removes the last character
\* (nothing from an empty buffer), and neither changes anything else.
C25_BufferOnlyInSshInput ==
  [][/\ app.mode.tag # "SshInput" => app.input = <<>>
     /\ app'.mode.tag # "SshInput" => app'.input = <<>>
     /\ (app.mode.tag # "SshInput" /\ app'.mode.tag = "SshInput") => app'.input = <<>>
     /\ (pc = "loop" /\ app.mode.tag = "SshInput" /\ KeyRead(trace') # None) =>
          LET key == KeyRead(trace')[1]
          IN /\ key.code = "Char" =>
                  (pc' = "end" /\ app' = [app EXCEPT !.input = app.input \o <<key.c>>])
             /\ key.code = "Backspace" =>
                  /\ pc' = "end"
                  /\ app' = [app EXCEPT !.input =
                               IF app.input = <<>> THEN <<>>
                               ELSE SubSeq(app.input, 1, Len(app.input) - 1)]]_vars

\* Backspace took the second of two typed characters away.
C25_Witness ==
  /\ pc = "end"
  /\ app.mode.tag = "SshInput"
  /\ KeyRead(trace) = Some(Key("Backspace"))
  /\ app.input = <<"q">>

\* The iteration ran into a failure: an operation of the terminal or the
\* list command.
FailureIn(t) ==
  \/ Failed(t)
  \/ \E i \in Ran(t, {"list"}) : t[i].status # "success"

\* C26: a key press ends the session of itself (no operation of the terminal
\* and no list command having failed) only in Mode::Normal, on 'q' or Esc, and
\* these two always end it there, with status 0.  In Mode::Confirm Esc only
\* sets Mode::Normal and 'q' changes nothing; in Mode::SshInput Esc sets
\* Mode::Normal and empties the buffer, and 'q' is appended to the buffer.
C26_QuitKeysOnlyInNormal ==
  [][(pc = "loop" /\ KeyRead(trace') # None)
     => LET key == KeyRead(trace')[1]
            quit == key \in {Char("q"), Key("Esc")}
        IN /\ (pc' = "exited" /\ ~FailureIn(trace')) =>
                (app.mode.tag = "Normal" /\ quit /\ exit_status' = Some(0))
           /\ (app.mode.tag = "Normal" /\ quit) => pc' = "exited"
           /\ (app.mode.tag = "Confirm" /\ key = Key("Esc")) =>
                (pc' = "end" /\ app' = [app EXCEPT !.mode = ModeNormal])
           /\ (app.mode.tag = "Confirm" /\ key = Char("q")) =>
                (pc' = "end" /\ app' = app)
           /\ (app.mode.tag = "SshInput" /\ key = Key("Esc")) =>
                (pc' = "end" /\ app' = [app EXCEPT !.mode = ModeNormal, !.input = <<>>])
           /\ (app.mode.tag = "SshInput" /\ key = Char("q")) =>
                (pc' = "end" /\ app' = [app EXCEPT !.input = Append(app.input, "q")])]_vars

\* 'q' typed as the first character of the user name.
C26_Witness ==
  /\ pc = "end"
  /\ KeyRead(trace) = Some(Char("q"))
  /\ app.mode.tag = "SshInput"
  /\ app.input = <<"q">>
  /\ exit_status = None

====
